---------------------------- MODULE Spec2Model ----------------------------
(***************************************************************************)
(* A model of BGM_Clients (BGMDriver/DeviceClients/BGM_Clients.cpp) and of *)
(* the routing buffer of BGM_Client (BGM_Client.cpp): the set of attached  *)
(* clients, the reference-counted IO state, the music-player designator    *)
(* and the routing graph.                                                  *)
(*                                                                         *)
(* Every public method is one action.  A method that throws is modelled by *)
(* the writes it made before the throw, with the exception's name as its   *)
(* result.  The variable "last" records the last call: its name, its       *)
(* arguments, its result, the branch of the handler that ran and the       *)
(* notifications it handed to SendIORunningNotifications.                  *)
(***************************************************************************)
EXTENDS Integers, Sequences, FiniteSets, TLC

(***************************************************************************)
(* Bounds of the model.                                                    *)
(***************************************************************************)
\* Client ids handed out by the host: 1..MaxClients.
MaxClients == 2
\* The ceiling of the two UInt64 IO counters; stands for UINT64_MAX
\* (BGM_Clients.cpp:112, 126), scaled down so that the overflow check is
\* reachable.
CounterMax == 3
\* The largest number of edges the routing graph is let grow to.
MaxRoutes == 3
\* The largest number of entries of a SetRoutesFromArray request.
MaxArrayLen == 2
\* The largest number of frames of one StoreClientAudioRT or
\* MixRoutedAudioRT call.
MaxFrames == 2
\* The largest number of frames a routing buffer is let take in all; more
\* than kRoutingBufferFrames, so that writes wrap.
MaxStored == 5

(***************************************************************************)
(* Values.                                                                 *)
(***************************************************************************)
ClientIDs == 1..MaxClients
\* Process ids of the attaching applications (the ids of spec scenario S3).
PIDs == {200, 201}
\* The control app's well-known bundle id (kBGMAppBundleID, BGM_Types.h).
kBGMAppBundleID == "com.bearisdriving.BGM.App"
\* A CACFString that holds no string (IsValid() is false).
InvalidString == "<null>"
\* Bundle ids an attaching client may carry.
ClientBundleIDs == {kBGMAppBundleID, "com.example.player"}
\* The value of mBGMAppClientID while no control-app client is cached.
NoBGMAppClient == -1

VARIABLES
    clients,                        \* mClientMap: client id -> BGM_Client
    mStartCount,                    \* clients doing IO
    mStartCountExcludingBGMApp,     \* the same, the control app left out
    mBGMAppClientID,                \* cached client id of the control app
    mMusicPlayerProcessIDProperty,  \* the PID designator, 0 when unset
    mMusicPlayerBundleIDProperty,   \* the bundle-id designator, "" when unset
    mRoutes,                        \* the routing graph, a sequence of edges
    last,                           \* the last call and its outcome
    ioBuffer,                       \* the io buffer of the call in last, after it
    rtThread,                       \* the RT threads: where each is in its call
    mMutex,                         \* the thread that holds mMutex, or NoThread
    nrtThread                       \* the NRT threads: where each is in its call

vars == <<clients, mStartCount, mStartCountExcludingBGMApp, mBGMAppClientID,
          mMusicPlayerProcessIDProperty, mMusicPlayerBundleIDProperty,
          mRoutes, last, ioBuffer, rtThread, mMutex, nrtThread>>

\* The state of the threads.
threadVars == <<rtThread, mMutex, nrtThread>>

ioVars == <<mStartCount, mStartCountExcludingBGMApp>>
mpVars == <<mMusicPlayerProcessIDProperty, mMusicPlayerBundleIDProperty>>

(***************************************************************************)
(* The record of a call.                                                   *)
(***************************************************************************)
\* Whether a call told the host that the device started or stopped: the
\* Boolean StartIONonRT (line 146) and StopIONonRT (line 199) return.
ReportsTransition(op, ret) ==
    op \in {"StartIONonRT", "StopIONonRT"} /\ ret = "true"

\* The record of a call.  The field reported is history: the operation of
\* the latest call that reported a device transition to the host.
Call(op, args, ret, branch, running, elsewhere) ==
    [op |-> op, args |-> args, ret |-> ret, branch |-> branch,
     running |-> running, elsewhere |-> elsewhere,
     reported |-> IF ReportsTransition(op, ret) THEN op ELSE last.reported]

\* A call that flags no notification.
Quiet(op, args, ret, branch) == Call(op, args, ret, branch, FALSE, FALSE)

(***************************************************************************)
(* Threads.  A call that runs from its first line to its return with no    *)
(* other thread running in between is one step: CAMutex::Locker takes      *)
(* mMutex at its start and releases it at its return, and no thread is     *)
(* inside a call before or after.                                          *)
(***************************************************************************)
\* The value of mMutex while no thread holds it.
NoThread == 0
\* A thread that is in no call.
Idle == [pc |-> "idle"]
\* The two RT threads of the model: the IO callback of a routing source and
\* the IO callback of a routing destination.
RTThreads == {"store", "mix"}
\* The NRT threads of the model.
NRTThreads == {1, 2}

\* No thread is inside a call.
AllIdle ==
    /\ \A t \in RTThreads : rtThread[t] = Idle
    /\ \A t \in NRTThreads : nrtThread[t] = Idle
    /\ mMutex = NoThread

\* The call A, run alone by a thread that takes no io buffer.
Serial(A) ==
    /\ AllIdle
    /\ A
    /\ ioBuffer' = <<>>
    /\ UNCHANGED threadVars

(***************************************************************************)
(* BGM_Client and BGM_ClientMap.                                           *)
(***************************************************************************)
\* The capacity of a routing buffer in frames (kRoutingBufferFrames,
\* BGM_Client.h; RING_FRAMES in the spec), scaled down so that writes wrap.
kRoutingBufferFrames == 4
\* The samples of a frame: interleaved stereo (kRoutingBufferChannels).
kRoutingBufferChannels == 2
\* A routing buffer that is not allocated.
nullptr == <<>>
\* Lines 69-71 of BGM_Client.cpp: a new routing buffer, zeroed.
ZeroedBuffer == [i \in 1..(kRoutingBufferFrames * kRoutingBufferChannels) |-> 0]

\* BGM_Types.h: the ranges of the raw values of a volume request.  The model
\* keeps relative volumes in hundredths and EQ gains in tenths of a dB.
kAppRelativeVolumeMinRawValue == 0
kAppRelativeVolumeMaxRawValue == 100
kAppPanLeftRawValue == -100
kAppPanCenterRawValue == 0
kAppPanRightRawValue == 100
kAppEQGainMinRawValue == -120
kAppEQGainMaxRawValue == 120
\* The EQ gain that stands for "leave this band unchanged".
kAppEQGainNoValue == -9999

\* A client as the host hands it to AddClient: the fields of the
\* constructor, the others at their defaults.
\* The field "written" is not a member: it is the history of the routing
\* buffer, the frames StoreToRoutingBuffer has put in it since it was
\* allocated, oldest first.
NewClient(pid, bundleID) ==
    [mProcessID |-> pid, mBundleID |-> bundleID, mDoingIO |-> FALSE,
     mIsMusicPlayer |-> FALSE,
     mRelativeVolume |-> 100, mPanPosition |-> kAppPanCenterRawValue,
     mEQLowGain |-> 0, mEQMidGain |-> 0, mEQHighGain |-> 0,
     mRoutingBufferAllocated |-> FALSE,
     mRoutingBuffer |-> nullptr, mRoutingBufferWritePos |-> 0,
     mRoutingBufferSampleTime |-> 0, written |-> <<>>]

\* BGM_ClientMap::GetClientNonRT: a copy of the record.
GetClientNonRT(inClientID) == clients[inClientID]

\* BGM_ClientMap::StartIONonRT / StopIONonRT: set the record's mDoingIO.
ClientMap_SetDoingIO(inClientID, doingIO) ==
    [clients EXCEPT ![inClientID].mDoingIO = doingIO]

\* BGM_ClientMap::RemoveClient: the map without the client.
ClientMap_RemoveClient(inClientID) ==
    [c \in DOMAIN clients \ {inClientID} |-> clients[c]]

\* BGM_ClientMap::AddClient: the map with the client.
ClientMap_AddClient(inClientID, theClient) ==
    [c \in DOMAIN clients \cup {inClientID} |->
        IF c = inClientID THEN theClient ELSE clients[c]]

\* BGM_Clients::IsBGMApp (BGM_Clients.h).
IsBGMApp(inClientID) == inClientID = mBGMAppClientID

(***************************************************************************)
(* Construction.                                                           *)
(***************************************************************************)
Init ==
    /\ clients = <<>>
    /\ mStartCount = 0
    /\ mStartCountExcludingBGMApp = 0
    /\ mBGMAppClientID = NoBGMAppClient
    /\ mMusicPlayerProcessIDProperty = 0
    /\ mMusicPlayerBundleIDProperty = ""
    /\ mRoutes = <<>>
    /\ last = [op |-> "Init", args |-> <<>>, ret |-> "void", branch |-> "init",
               running |-> FALSE, elsewhere |-> FALSE, reported |-> "none"]
    /\ ioBuffer = <<>>
    /\ rtThread = [t \in RTThreads |-> Idle]
    /\ mMutex = NoThread
    /\ nrtThread = [t \in NRTThreads |-> Idle]

(***************************************************************************)
(* AddClient / RemoveClient (BGM_Clients.cpp:52-91).                       *)
(***************************************************************************)
pidMatchesMusicPlayerProperty(inClient) ==
    /\ mMusicPlayerProcessIDProperty # 0
    /\ inClient.mProcessID = mMusicPlayerProcessIDProperty

bundleIDMatchesMusicPlayerProperty_Never(inClient) == FALSE
bundleIDMatchesMusicPlayerProperty(inClient) ==
    /\ mMusicPlayerBundleIDProperty # ""
    /\ inClient.mBundleID # InvalidString
    /\ inClient.mBundleID = mMusicPlayerBundleIDProperty

\* Whether AddClient caches the client's id as the control app's.
AddedClientIsBGMApp(inClient) ==
    inClient.mBundleID # InvalidString /\ inClient.mBundleID = kBGMAppBundleID

AddClient(inClientID, pid, bundleID) ==
    /\ inClientID \notin DOMAIN clients
    /\ LET inClient == [NewClient(pid, bundleID) EXCEPT !.mIsMusicPlayer =
                           \/ pidMatchesMusicPlayerProperty(NewClient(pid, bundleID))
                           \/ bundleIDMatchesMusicPlayerProperty(NewClient(pid, bundleID))]
       IN /\ clients' = ClientMap_AddClient(inClientID, inClient)
          /\ mBGMAppClientID' = IF AddedClientIsBGMApp(inClient)
                                THEN inClientID ELSE mBGMAppClientID
    /\ last' = Quiet("AddClient", <<inClientID, pid, bundleID>>, "void", "added")
    /\ UNCHANGED <<ioVars, mpVars, mRoutes>>

RemoveClient(inClientID) ==
    /\ inClientID \in DOMAIN clients
    /\ clients' = ClientMap_RemoveClient(inClientID)
    /\ mBGMAppClientID' = IF inClientID = mBGMAppClientID
                          THEN NoBGMAppClient ELSE mBGMAppClientID
    /\ last' = Quiet("RemoveClient", <<inClientID>>, "void", "removed")
    /\ UNCHANGED <<ioVars, mpVars, mRoutes>>

(***************************************************************************)
(* StartIONonRT / StopIONonRT (BGM_Clients.cpp:95-200).                    *)
(***************************************************************************)
Bool(b) == IF b THEN "true" ELSE "false"

\* Line 109: the client is not doing IO yet, so this call starts it.
ShouldStartIO_Always(theClient) == TRUE
ShouldStartIO(theClient) == ~theClient.mDoingIO

\* Line 163: the client is doing IO, so this call stops it.
ShouldStopIO(theClient) == theClient.mDoingIO

\* Line 137: the device starts when the incremented count is 1.
DidStartIO(startCount) == startCount = 1

\* Line 190: the device stops when the decremented count is 0.
DidStopIO(startCount) == startCount = 0

\* Line 130: the first client other than the control app started.
StartedSomewhereElse(startCountExcludingBGMApp) == startCountExcludingBGMApp = 1

\* Line 183: the last client other than the control app stopped.
StoppedEverywhereElse(startCountExcludingBGMApp) == startCountExcludingBGMApp = 0

StartIONonRT(inClientID) ==
    LET op == "StartIONonRT"
        args == <<inClientID>>
    IN
    IF inClientID \notin DOMAIN clients
    THEN \* line 104
         /\ last' = Quiet(op, args, "InvalidClient", "throw104")
         /\ UNCHANGED <<clients, ioVars, mBGMAppClientID, mpVars, mRoutes>>
    ELSE IF ~ShouldStartIO(GetClientNonRT(inClientID))
    THEN \* lines 141-146 alone
         /\ last' = Quiet(op, args, "false", "alreadyDoingIO")
         /\ UNCHANGED <<clients, ioVars, mBGMAppClientID, mpVars, mRoutes>>
    ELSE IF mStartCount = CounterMax
    THEN \* line 112
         /\ last' = Quiet(op, args, "IllegalOperation", "throw112")
         /\ UNCHANGED <<clients, ioVars, mBGMAppClientID, mpVars, mRoutes>>
    ELSE IF ~IsBGMApp(inClientID) /\ mStartCountExcludingBGMApp = CounterMax
    THEN \* line 126, after lines 119 and 121
         /\ clients' = ClientMap_SetDoingIO(inClientID, TRUE)
         /\ mStartCount' = mStartCount + 1
         /\ last' = Quiet(op, args, "IllegalOperation", "throw126")
         /\ UNCHANGED <<mStartCountExcludingBGMApp, mBGMAppClientID, mpVars, mRoutes>>
    ELSE \* lines 119-138
         /\ clients' = ClientMap_SetDoingIO(inClientID, TRUE)
         /\ mStartCount' = mStartCount + 1
         /\ mStartCountExcludingBGMApp' =
                IF IsBGMApp(inClientID) THEN mStartCountExcludingBGMApp
                ELSE mStartCountExcludingBGMApp + 1
         /\ last' = Call(op, args, Bool(DidStartIO(mStartCount')), "started",
                         DidStartIO(mStartCount'),
                         /\ ~IsBGMApp(inClientID)
                         /\ StartedSomewhereElse(mStartCountExcludingBGMApp'))
         /\ UNCHANGED <<mBGMAppClientID, mpVars, mRoutes>>

StopIONonRT(inClientID) ==
    LET op == "StopIONonRT"
        args == <<inClientID>>
    IN
    IF inClientID \notin DOMAIN clients
    THEN \* line 158
         /\ last' = Quiet(op, args, "InvalidClient", "throw158")
         /\ UNCHANGED <<clients, ioVars, mBGMAppClientID, mpVars, mRoutes>>
    ELSE IF ~ShouldStopIO(GetClientNonRT(inClientID))
    THEN \* lines 194-199 alone
         /\ last' = Quiet(op, args, "false", "notDoingIO")
         /\ UNCHANGED <<clients, ioVars, mBGMAppClientID, mpVars, mRoutes>>
    ELSE IF mStartCount <= 0
    THEN \* line 172, after line 170
         /\ clients' = ClientMap_SetDoingIO(inClientID, FALSE)
         /\ last' = Quiet(op, args, "IllegalOperation", "throw172")
         /\ UNCHANGED <<ioVars, mBGMAppClientID, mpVars, mRoutes>>
    ELSE IF ~IsBGMApp(inClientID) /\ mStartCountExcludingBGMApp <= 0
    THEN \* line 179, after lines 170 and 174
         /\ clients' = ClientMap_SetDoingIO(inClientID, FALSE)
         /\ mStartCount' = mStartCount - 1
         /\ last' = Quiet(op, args, "IllegalOperation", "throw179")
         /\ UNCHANGED <<mStartCountExcludingBGMApp, mBGMAppClientID, mpVars, mRoutes>>
    ELSE \* lines 170-191
         /\ clients' = ClientMap_SetDoingIO(inClientID, FALSE)
         /\ mStartCount' = mStartCount - 1
         /\ mStartCountExcludingBGMApp' =
                IF IsBGMApp(inClientID) THEN mStartCountExcludingBGMApp
                ELSE mStartCountExcludingBGMApp - 1
         /\ last' = Call(op, args, Bool(DidStopIO(mStartCount')), "stopped",
                         DidStopIO(mStartCount'),
                         /\ ~IsBGMApp(inClientID)
                         /\ StoppedEverywhereElse(mStartCountExcludingBGMApp'))
         /\ UNCHANGED <<mBGMAppClientID, mpVars, mRoutes>>

(***************************************************************************)
(* The IO specification: clients attach, detach, start and stop IO.        *)
(***************************************************************************)
NextIO ==
    \/ \E c \in ClientIDs, pid \in PIDs, b \in ClientBundleIDs : Serial(AddClient(c, pid, b))
    \/ \E c \in ClientIDs : Serial(RemoveClient(c))
    \/ \E c \in ClientIDs : Serial(StartIONonRT(c))
    \/ \E c \in ClientIDs : Serial(StopIONonRT(c))

SpecIO == Init /\ [][NextIO]_vars


(***************************************************************************)
(* Properties of the IO state.                                             *)
(***************************************************************************)
IOOps == {"StartIONonRT", "StopIONonRT"}

\* The call recorded in last ran to its return statement.
Returned == last.ret \in {"true", "false"}

\* Lines 141 and 194: the condition both functions assert before they send
\* their notifications.  The counters are UInt64, so mStartCount - 1 wraps.
CountersInSync(startCount, startCountExcludingBGMApp) ==
    \/ startCountExcludingBGMApp = (startCount - 1) % (CounterMax + 1)
    \/ startCountExcludingBGMApp = startCount

\* The attached clients that are doing IO.
ClientsDoingIO == {c \in DOMAIN clients : clients[c].mDoingIO}

\* C1: after every StartIONonRT or StopIONonRT call that reaches the
\* assertion at its end, mStartCountExcludingBGMApp equals mStartCount or
\* mStartCount - 1, whatever clients carry the control app's bundle id.
C1_CountersInSyncAfterIOCall ==
    (last.op \in IOOps /\ Returned)
        => CountersInSync(mStartCount, mStartCountExcludingBGMApp)

\* C2: StartIONonRT returns true exactly when the call moved mStartCount
\* from 0 to 1, StopIONonRT returns true exactly when the call moved it
\* from 1 to 0, and the device-is-running notification is flagged by
\* exactly the calls that return true.
C2_ReturnsTrueIffDeviceTransition ==
    [][ /\ (last'.op = "StartIONonRT") =>
              ((last'.ret = "true") <=> (mStartCount = 0 /\ mStartCount' = 1))
        /\ (last'.op = "StopIONonRT") =>
              ((last'.ret = "true") <=> (mStartCount = 1 /\ mStartCount' = 0))
        /\ (last'.op \in IOOps) =>
              (last'.running <=> (last'.ret = "true")) ]_vars

\* C3: StartIONonRT on a client that is doing IO, and StopIONonRT on a
\* client that is not, return false, flag no notification and leave both
\* counters and every client's mDoingIO as they were.
C3_NoDoubleStartNoDoubleStop ==
    [][ \A c \in DOMAIN clients :
            (\/ last'.op = "StartIONonRT" /\ last'.args = <<c>> /\ clients[c].mDoingIO
             \/ last'.op = "StopIONonRT" /\ last'.args = <<c>> /\ ~clients[c].mDoingIO)
            => /\ last'.ret = "false"
               /\ ~last'.running /\ ~last'.elsewhere
               /\ mStartCount' = mStartCount
               /\ mStartCountExcludingBGMApp' = mStartCountExcludingBGMApp
               /\ DOMAIN clients' = DOMAIN clients
               /\ \A d \in DOMAIN clients : clients'[d].mDoingIO = clients[d].mDoingIO
      ]_vars

\* C3's case: a start of a client that was doing IO already has returned
\* (a start that took effect leaves the branch "started").
C3_Witness ==
    /\ last.op = "StartIONonRT" /\ last.branch = "alreadyDoingIO"
    /\ clients[last.args[1]].mDoingIO
    /\ mStartCount > 0

\* C4: the running-elsewhere notification is flagged by a StartIONonRT call
\* exactly when it moves mStartCountExcludingBGMApp from 0 to 1 and by a
\* StopIONonRT call exactly when it moves it from 1 to 0; and a start or a
\* stop of a client that carries the control app's bundle id never flags it.
C4_ElsewhereFlagFollowsExcludingCount ==
    [][ /\ (last'.op = "StartIONonRT") =>
              (last'.elsewhere <=> (mStartCountExcludingBGMApp = 0
                                    /\ mStartCountExcludingBGMApp' = 1))
        /\ (last'.op = "StopIONonRT") =>
              (last'.elsewhere <=> (mStartCountExcludingBGMApp = 1
                                    /\ mStartCountExcludingBGMApp' = 0))
        /\ \A c \in DOMAIN clients :
              (last'.op \in IOOps /\ last'.args = <<c>>
               /\ clients[c].mBundleID = kBGMAppBundleID) => ~last'.elsewhere
      ]_vars

\* C5: in every reachable state mStartCount is the number of attached
\* clients whose mDoingIO is true.
C5_StartCountCountsClientsDoingIO ==
    mStartCount = Cardinality(ClientsDoingIO)


(***************************************************************************)
(* SetMusicPlayer (BGM_Clients.cpp:241-288).                               *)
(***************************************************************************)
\* PIDs a caller designates: valid ones, 0 (the value that means "unset")
\* and a negative one.
MusicPlayerPIDs == PIDs \cup {0, -1}
\* Bundle ids a caller designates, "" being the value that means "unset".
MusicPlayerBundleIDs == ClientBundleIDs \cup {""}

\* BGM_ClientMap::UpdateMusicPlayerFlags(pid_t).
UpdateMusicPlayerFlags_PID(inPID) ==
    [c \in DOMAIN clients |->
        [clients[c] EXCEPT !.mIsMusicPlayer = (clients[c].mProcessID = inPID)]]

\* BGM_ClientMap::UpdateMusicPlayerFlags(CACFString).
UpdateMusicPlayerFlags_BundleID(inBundleID) ==
    [c \in DOMAIN clients |->
        [clients[c] EXCEPT !.mIsMusicPlayer =
            (clients[c].mBundleID # InvalidString /\ clients[c].mBundleID = inBundleID)]]

\* Line 247: the PID given is the one stored.
SamePID(inPID) == mMusicPlayerProcessIDProperty = inPID

\* Line 271: the bundle id given is the one stored.
SameBundleID(inBundleID) == mMusicPlayerBundleIDProperty = inBundleID

\* Line 255: what SetMusicPlayer(pid_t) stores as the bundle-id designator.
BundleIDAfterSetByPID_Kept == mMusicPlayerBundleIDProperty
BundleIDAfterSetByPID == ""

\* Line 279: what SetMusicPlayer(CACFString) stores as the PID designator.
PIDAfterSetByBundleID == 0

SetMusicPlayer_PID(inPID) ==
    LET op == "SetMusicPlayer_PID"
        args == <<inPID>>
    IN
    IF inPID < 0
    THEN \* line 243
         /\ last' = Quiet(op, args, "InvalidClientPID", "throw243")
         /\ UNCHANGED <<clients, ioVars, mBGMAppClientID, mpVars, mRoutes>>
    ELSE IF SamePID(inPID)
    THEN \* line 250
         /\ last' = Quiet(op, args, "false", "same")
         /\ UNCHANGED <<clients, ioVars, mBGMAppClientID, mpVars, mRoutes>>
    ELSE \* lines 253-262
         /\ mMusicPlayerProcessIDProperty' = inPID
         /\ mMusicPlayerBundleIDProperty' = BundleIDAfterSetByPID
         /\ clients' = UpdateMusicPlayerFlags_PID(inPID)
         /\ last' = Quiet(op, args, "true",
                          IF mMusicPlayerBundleIDProperty # ""
                          THEN "replacedBundleID" ELSE "set")
         /\ UNCHANGED <<ioVars, mBGMAppClientID, mRoutes>>

SetMusicPlayer_BundleID(inBundleID) ==
    LET op == "SetMusicPlayer_BundleID"
        args == <<inBundleID>>
    IN
    IF SameBundleID(inBundleID)
    THEN \* line 274
         /\ last' = Quiet(op, args, "false", "same")
         /\ UNCHANGED <<clients, ioVars, mBGMAppClientID, mpVars, mRoutes>>
    ELSE \* lines 277-287
         /\ mMusicPlayerBundleIDProperty' = inBundleID
         /\ mMusicPlayerProcessIDProperty' = PIDAfterSetByBundleID
         /\ clients' = UpdateMusicPlayerFlags_BundleID(inBundleID)
         /\ last' = Quiet(op, args, "true",
                          IF mMusicPlayerProcessIDProperty # 0
                          THEN "replacedPID" ELSE "set")
         /\ UNCHANGED <<ioVars, mBGMAppClientID, mRoutes>>

\* BGM_ClientMap::GetClientRT: whether the id is in the map.
DidGetClientRT(map, inClientID) == inClientID \in DOMAIN map

\* Lines 290-295.
IsMusicPlayerRT(inClientID) ==
    LET didGetClient == DidGetClientRT(clients, inClientID)
    IN /\ last' = Quiet("IsMusicPlayerRT", <<inClientID>>,
                        Bool(didGetClient /\ clients[inClientID].mIsMusicPlayer),
                        IF didGetClient THEN "found" ELSE "unknown")
       /\ UNCHANGED <<clients, ioVars, mBGMAppClientID, mpVars, mRoutes>>

(***************************************************************************)
(* The music-player specification: clients attach and detach, with and     *)
(* without a bundle id, while the designator is set by PID and by bundle   *)
(* id and the RT side asks who the music player is.                        *)
(***************************************************************************)
NextMusicPlayer ==
    \/ \E c \in ClientIDs, pid \in PIDs, b \in ClientBundleIDs \cup {InvalidString} :
          Serial(AddClient(c, pid, b))
    \/ \E c \in ClientIDs : Serial(RemoveClient(c))
    \/ \E pid \in MusicPlayerPIDs : Serial(SetMusicPlayer_PID(pid))
    \/ \E b \in MusicPlayerBundleIDs : Serial(SetMusicPlayer_BundleID(b))
    \/ \E c \in ClientIDs : Serial(IsMusicPlayerRT(c))

SpecMusicPlayer == Init /\ [][NextMusicPlayer]_vars

PIDDesignatorSet == mMusicPlayerProcessIDProperty # 0
BundleIDDesignatorSet == mMusicPlayerBundleIDProperty # ""

\* C6 as claimed: after every SetMusicPlayer(pid) call with pid >= 0 the
\* bundle-id designator is unset, after every SetMusicPlayer(bundle_id) call
\* the PID designator is unset, and never are both set.
C6_Original_SettingOneClearsTheOther ==
    /\ (last.op = "SetMusicPlayer_PID" /\ last.args[1] >= 0) => ~BundleIDDesignatorSet
    /\ (last.op = "SetMusicPlayer_BundleID") => ~PIDDesignatorSet
    /\ ~(PIDDesignatorSet /\ BundleIDDesignatorSet)

\* C6 as amended: after every SetMusicPlayer(pid) call with pid > 0 the
\* bundle-id designator is unset, after every SetMusicPlayer(bundle_id) call
\* with a non-empty bundle id the PID designator is unset, and never are
\* both set.  (A call with pid = 0 or with "" while that designator is unset
\* already returns false and leaves the other designator as it is.)
C6_SettingOneClearsTheOther ==
    /\ (last.op = "SetMusicPlayer_PID" /\ last.args[1] > 0) => ~BundleIDDesignatorSet
    /\ (last.op = "SetMusicPlayer_BundleID" /\ last.args[1] # "") => ~PIDDesignatorSet
    /\ ~(PIDDesignatorSet /\ BundleIDDesignatorSet)

\* C6's case: a SetMusicPlayer(pid) call with pid > 0 has replaced a
\* bundle-id designator.
C6_Witness ==
    /\ last.op = "SetMusicPlayer_PID" /\ last.branch = "replacedBundleID"
    /\ last.args[1] > 0
    /\ PIDDesignatorSet


(***************************************************************************)
(* The routing graph (BGM_Clients.cpp:457-654).                            *)
(*                                                                         *)
(* A Float32 gain is an integer number of hundredths (100 is 1.0f), or     *)
(* F32_NaN.  Comparing gains follows IEEE 754: NaN differs from everything,*)
(* itself included.                                                        *)
(***************************************************************************)
\* A Float32 that is not a number.
F32_NaN == -1
\* Line 588: the gain of a request entry that carries none (1.0f).
kDefaultGain == 100
\* Line 592: the enabled flag of a request entry that carries none.
kDefaultEnabled == TRUE
\* Gains a caller passes.
Gains == {50, kDefaultGain, F32_NaN}

\* operator!= of Float32 (lines 467, 602).
F32_NotEqual(a, b) == a = F32_NaN \/ b = F32_NaN \/ a # b

\* BGM_AudioRoute.
AudioRoute(sourcePID, destPID, gain, enabled) ==
    [mSourcePID |-> sourcePID, mDestPID |-> destPID,
     mGain |-> gain, mEnabled |-> enabled]

\* BGM_Client::AllocateRoutingBuffer (BGM_Client.cpp:65-75).
AllocateRoutingBuffer(theClient) ==
    IF ~theClient.mRoutingBufferAllocated /\ theClient.mRoutingBuffer = nullptr
    THEN [theClient EXCEPT !.mRoutingBuffer = ZeroedBuffer,
                           !.mRoutingBufferAllocated = TRUE,
                           !.mRoutingBufferWritePos = 0,
                           !.written = <<>>]
    ELSE theClient

\* BGM_Client::DeallocateRoutingBuffer (BGM_Client.cpp:77-86).
DeallocateRoutingBuffer(theClient) ==
    IF theClient.mRoutingBufferAllocated /\ theClient.mRoutingBuffer # nullptr
    THEN [theClient EXCEPT !.mRoutingBuffer = nullptr,
                           !.mRoutingBufferAllocated = FALSE,
                           !.mRoutingBufferWritePos = 0,
                           !.written = <<>>]
    ELSE theClient

\* BGM_ClientMap::AllocateRoutingBufferForPID: on the clients of that process.
AllocateRoutingBufferForPID(map, inPID) ==
    [c \in DOMAIN map |-> IF map[c].mProcessID = inPID
                          THEN AllocateRoutingBuffer(map[c]) ELSE map[c]]

\* BGM_ClientMap::DeallocateRoutingBufferForPID: on the clients of that process.
DeallocateRoutingBufferForPID(map, inPID) ==
    [c \in DOMAIN map |-> IF map[c].mProcessID = inPID
                          THEN DeallocateRoutingBuffer(map[c]) ELSE map[c]]

\* Line 464: the edge is the one from inSourcePID to inDestPID.
RouteMatches_Typo(route, inSourcePID, inDestPID) ==
    route.mSourcePID = inSourcePID /\ route.mDestPID = inSourcePID
RouteMatches(route, inSourcePID, inDestPID) ==
    route.mSourcePID = inSourcePID /\ route.mDestPID = inDestPID

\* Line 467: the stored gain or enabled flag differs from the one given.
RouteChanged(route, inGain, inEnabled) ==
    F32_NotEqual(route.mGain, inGain) \/ route.mEnabled # inEnabled

\* Lines 462-464: the index of the first edge the loop stops at, 0 if none.
FirstRoute(routes, inSourcePID, inDestPID) ==
    LET found == {i \in 1..Len(routes) :
                     RouteMatches(routes[i], inSourcePID, inDestPID)}
    IN IF found = {} THEN 0
       ELSE CHOOSE i \in found : \A j \in found : i <= j

\* The effect of SetRoute on the graph and the client map, and its result.
SetRouteResult(routes, map, inSourcePID, inDestPID, inGain, inEnabled) ==
    LET i == FirstRoute(routes, inSourcePID, inDestPID) IN
    IF i # 0
    THEN \* lines 466-473
         [routes |-> [routes EXCEPT ![i].mGain = inGain, ![i].mEnabled = inEnabled],
          clients |-> map,
          ret |-> RouteChanged(routes[i], inGain, inEnabled),
          branch |-> "updated"]
    ELSE IF inEnabled
    THEN \* lines 480-493
         [routes |-> Append(routes, AudioRoute(inSourcePID, inDestPID, inGain, inEnabled)),
          clients |-> AllocateRoutingBufferForPID(map, inSourcePID),
          ret |-> TRUE,
          branch |-> "appended"]
    ELSE \* line 496
         [routes |-> routes, clients |-> map, ret |-> FALSE, branch |-> "none"]

SetRoute(inSourcePID, inDestPID, inGain, inEnabled) ==
    LET r == SetRouteResult(mRoutes, clients, inSourcePID, inDestPID, inGain, inEnabled)
    IN /\ Len(r.routes) <= MaxRoutes
       /\ mRoutes' = r.routes
       /\ clients' = r.clients
       /\ last' = Quiet("SetRoute", <<inSourcePID, inDestPID, inGain, inEnabled>>,
                        Bool(r.ret), r.branch)
       /\ UNCHANGED <<ioVars, mBGMAppClientID, mpVars>>

(***************************************************************************)
(* SetRoutesFromArray (BGM_Clients.cpp:557-630).  A request entry is a     *)
(* CFDictionary, or something that is not one, in which each of the four   *)
(* keys may be absent.                                                     *)
(***************************************************************************)
RouteEntry(isDict, hasSource, source, hasDest, dest, hasGain, gain, hasEnabled, enabled) ==
    [isDict |-> isDict, hasSource |-> hasSource, source |-> source,
     hasDest |-> hasDest, dest |-> dest, hasGain |-> hasGain, gain |-> gain,
     hasEnabled |-> hasEnabled, enabled |-> enabled]

\* The entries of the requests: an edge with neither gain nor enabled flag,
\* edges with both, an entry without source, one without destination and one
\* that is no dictionary.
RouteEntries ==
    {RouteEntry(TRUE, TRUE, 200, TRUE, 201, FALSE, 0, FALSE, FALSE),
     RouteEntry(TRUE, TRUE, 200, TRUE, 201, TRUE, 50, TRUE, FALSE),
     RouteEntry(TRUE, TRUE, 201, TRUE, 200, TRUE, F32_NaN, TRUE, TRUE),
     RouteEntry(TRUE, FALSE, 0, TRUE, 201, TRUE, 50, TRUE, TRUE),
     RouteEntry(TRUE, TRUE, 201, FALSE, 0, TRUE, 50, TRUE, TRUE),
     RouteEntry(FALSE, FALSE, 0, FALSE, 0, FALSE, 0, FALSE, FALSE)}

RouteArrays == UNION {[1..n -> RouteEntries] : n \in 0..MaxArrayLen}

\* Lines 568-585: the entry is skipped.
EntrySkipped(entry) == ~entry.isDict \/ ~entry.hasSource \/ ~entry.hasDest

\* Lines 587-589: the gain read from the entry.
EntryGain(entry) == IF entry.hasGain THEN entry.gain ELSE kDefaultGain

\* Lines 591-593: the enabled flag read from the entry.
EntryEnabled(entry) == IF entry.hasEnabled THEN entry.enabled ELSE kDefaultEnabled

\* Line 600: the edge is the one from sourcePID to destPID.
ArrayRouteMatches(existingRoute, sourcePID, destPID) ==
    existingRoute.mSourcePID = sourcePID /\ existingRoute.mDestPID = destPID

\* Line 602: the stored gain or enabled flag differs from the entry's.
ArrayRouteChanged_GainOnly(existingRoute, gain, enabled) ==
    F32_NotEqual(existingRoute.mGain, gain)
ArrayRouteChanged(existingRoute, gain, enabled) ==
    F32_NotEqual(existingRoute.mGain, gain) \/ existingRoute.mEnabled # enabled

\* Lines 598-611: the index of the edge the loop breaks at, 0 if none.
ArrayFirstRoute(routes, sourcePID, destPID) ==
    LET found == {i \in 1..Len(routes) :
                     ArrayRouteMatches(routes[i], sourcePID, destPID)}
    IN IF found = {} THEN 0
       ELSE CHOOSE i \in found : \A j \in found : i <= j

\* Lines 565-626: one turn of the loop, on st = [routes, clients, ret].
ArrayStep(st, entry) ==
    IF EntrySkipped(entry) THEN st
    ELSE LET sourcePID == entry.source
             destPID == entry.dest
             gain == EntryGain(entry)
             enabled == EntryEnabled(entry)
             i == ArrayFirstRoute(st.routes, sourcePID, destPID)
         IN IF i # 0
            THEN IF ArrayRouteChanged(st.routes[i], gain, enabled)
                 THEN [st EXCEPT !.routes = [st.routes EXCEPT ![i].mGain = gain,
                                                              ![i].mEnabled = enabled],
                                 !.ret = TRUE]
                 ELSE st
            ELSE IF enabled
            THEN [routes |-> Append(st.routes, AudioRoute(sourcePID, destPID, gain, enabled)),
                  clients |-> AllocateRoutingBufferForPID(st.clients, sourcePID),
                  ret |-> TRUE]
            ELSE st

\* Lines 561-629: the loop over the request, from entry i on.
RECURSIVE ArrayLoop(_, _, _)
ArrayLoop(st, inRoutes, i) ==
    IF i > Len(inRoutes) THEN st
    ELSE ArrayLoop(ArrayStep(st, inRoutes[i]), inRoutes, i + 1)

\* The effect of SetRoutesFromArray on the graph and the client map, and its
\* result.
SetRoutesFromArrayResult(routes, map, inRoutes) ==
    ArrayLoop([routes |-> routes, clients |-> map, ret |-> FALSE], inRoutes, 1)

SetRoutesFromArray(inRoutes) ==
    LET r == SetRoutesFromArrayResult(mRoutes, clients, inRoutes)
    IN /\ Len(r.routes) <= MaxRoutes
       /\ mRoutes' = r.routes
       /\ clients' = r.clients
       /\ last' = Quiet("SetRoutesFromArray", <<>>, Bool(r.ret),
                        IF Len(r.routes) > Len(mRoutes) THEN "appended"
                        ELSE IF r.ret THEN "updated" ELSE "none")
       /\ UNCHANGED <<ioVars, mBGMAppClientID, mpVars>>

(***************************************************************************)
(* ClearRoutesForClient (BGM_Clients.cpp:632-654).                         *)
(***************************************************************************)
\* Line 640: the edge starts or ends at the process.
RouteTouches_SourceOnly(route, inProcessID) ==
    route.mSourcePID = inProcessID
RouteTouches(route, inProcessID) ==
    route.mSourcePID = inProcessID \/ route.mDestPID = inProcessID

\* Lines 637-650: the edges the erase loop keeps, in their order.
RoutesKept(routes, inProcessID) ==
    SelectSeq(routes, LAMBDA route : ~RouteTouches(route, inProcessID))

ClearRoutesForClient(inProcessID) ==
    /\ mRoutes' = RoutesKept(mRoutes, inProcessID)
    /\ clients' = DeallocateRoutingBufferForPID(clients, inProcessID)
    /\ last' = Quiet("ClearRoutesForClient", <<inProcessID>>, "void",
                     IF Len(mRoutes') < Len(mRoutes) THEN "erased" ELSE "none")
    /\ UNCHANGED <<ioVars, mBGMAppClientID, mpVars>>

(***************************************************************************)
(* CopyRoutesAsArray (BGM_Clients.cpp:499-555).                            *)
(***************************************************************************)
\* Lines 513-551: the dictionary made of an edge, all four keys set.
RouteDict(route) ==
    RouteEntry(TRUE, TRUE, route.mSourcePID, TRUE, route.mDestPID,
               TRUE, route.mGain, TRUE, route.mEnabled)

\* Lines 511-552: one dictionary per edge, in the graph's order.
RoutesAsArray(routes) == [i \in 1..Len(routes) |-> RouteDict(routes[i])]

CopyRoutesAsArray ==
    /\ last' = Quiet("CopyRoutesAsArray", <<RoutesAsArray(mRoutes)>>, "array", "copied")
    /\ UNCHANGED <<clients, ioVars, mBGMAppClientID, mpVars, mRoutes>>

(***************************************************************************)
(* The routing specification: clients attach while routes are set, set in  *)
(* batches, copied and cleared.                                            *)
(***************************************************************************)
\* The clients of the routed processes, one per process.
RouteClientIDs == {1, 2}
\* The process a client attaches from.
RouteClientPID(c) == 200 + (c % 2)
\* The (source, destination) pairs routes are set for.
RoutePairs == {<<200, 201>>, <<201, 200>>}

NextRoutes ==
    \/ \E c \in RouteClientIDs : Serial(AddClient(c, RouteClientPID(c), "com.example.player"))
    \/ \E p \in RoutePairs, g \in Gains, e \in BOOLEAN : Serial(SetRoute(p[1], p[2], g, e))
    \/ \E a \in RouteArrays : Serial(SetRoutesFromArray(a))
    \/ Serial(CopyRoutesAsArray)
    \/ \E pid \in PIDs : Serial(ClearRoutesForClient(pid))

SpecRoutes == Init /\ [][NextRoutes]_vars


(***************************************************************************)
(* Properties of the routing graph.                                        *)
(***************************************************************************)
\* The positions of the edges from s to d.
EdgesOf(routes, s, d) ==
    {i \in 1..Len(routes) : routes[i].mSourcePID = s /\ routes[i].mDestPID = d}

\* The (source, destination) pairs of a graph, in its order.
PairsOf(routes) ==
    [i \in 1..Len(routes) |-> <<routes[i].mSourcePID, routes[i].mDestPID>>]

\* C7: calling SetRoute twice in a row with the same tuple leaves the graph
\* (and the clients) after the second call as after the first, and the
\* second call returns false.
C7_SetRouteTwiceIsIdempotent ==
    [][ (last.op = "SetRoute" /\ last'.op = "SetRoute" /\ last'.args = last.args)
            => /\ mRoutes' = mRoutes
               /\ clients' = clients
               /\ last'.ret = "false" ]_vars

\* C8: the graph holds at most one edge for each (source, destination)
\* pair; and setting an existing pair, by SetRoute or by an entry of
\* SetRoutesFromArray, stores the gain and the enabled flag given in that
\* edge and leaves every other edge, the number of edges and their order
\* as they were.
C8_PairsUniqueAndUpdatedInPlace ==
    /\ \A s \in PIDs, d \in PIDs : Cardinality(EdgesOf(mRoutes, s, d)) <= 1
    /\ \A s \in PIDs, d \in PIDs, g \in Gains, e \in BOOLEAN :
          \A i \in EdgesOf(mRoutes, s, d) :
              LET r == SetRouteResult(mRoutes, clients, s, d, g, e)
              IN /\ PairsOf(r.routes) = PairsOf(mRoutes)
                 /\ r.routes[i].mGain = g /\ r.routes[i].mEnabled = e
                 /\ \A k \in 1..Len(mRoutes) : k # i => r.routes[k] = mRoutes[k]
    /\ \A entry \in RouteEntries :
          (entry.isDict /\ entry.hasSource /\ entry.hasDest) =>
          \A i \in EdgesOf(mRoutes, entry.source, entry.dest) :
              LET r == SetRoutesFromArrayResult(mRoutes, clients, <<entry>>)
              IN /\ PairsOf(r.routes) = PairsOf(mRoutes)
                 /\ entry.hasGain => r.routes[i].mGain = entry.gain
                 /\ entry.hasEnabled => r.routes[i].mEnabled = entry.enabled
                 /\ \A k \in 1..Len(mRoutes) : k # i => r.routes[k] = mRoutes[k]

\* C8's case: SetRoute has changed an existing edge of a graph of two edges.
C8_Witness ==
    /\ last.op = "SetRoute" /\ last.branch = "updated" /\ last.ret = "true"
    /\ Len(mRoutes) = 2

\* C9: SetRoute returns true exactly when the graph after the call differs
\* from the graph before it: false with the graph unchanged when the
\* existing edge holds the values given or when there is no edge and
\* enabled is false, true when a new enabled edge was appended.
C9_SetRouteReturnsTrueIffGraphChanged ==
    [][ (last'.op = "SetRoute") =>
            LET s == last'.args[1]
                d == last'.args[2]
                g == last'.args[3]
                e == last'.args[4]
                at == EdgesOf(mRoutes, s, d)
            IN /\ (last'.ret = "true") <=> (mRoutes' # mRoutes)
               /\ (\E i \in at : mRoutes[i] = AudioRoute(s, d, g, e))
                     => (last'.ret = "false" /\ mRoutes' = mRoutes)
               /\ (at = {} /\ ~e) => (last'.ret = "false" /\ mRoutes' = mRoutes)
               /\ (at = {} /\ e)
                     => /\ last'.ret = "true"
                        /\ mRoutes' = Append(mRoutes, AudioRoute(s, d, g, e))
      ]_vars

\* What the claim reads from an entry that carries no gain, no enabled flag.
ClaimedEntryGain(entry) == IF entry.hasGain THEN entry.gain ELSE 100
ClaimedEntryEnabled(entry) == IF entry.hasEnabled THEN entry.enabled ELSE TRUE

\* SetRoute called on each entry of a request in the request's order, the
\* entries that are no dictionary or lack a source or a destination left
\* out; ret is the logical OR of the results.
RECURSIVE SetRouteEach(_, _, _)
SetRouteEach(st, inRoutes, i) ==
    IF i > Len(inRoutes) THEN st
    ELSE LET entry == inRoutes[i] IN
         IF ~(entry.isDict /\ entry.hasSource /\ entry.hasDest)
         THEN SetRouteEach(st, inRoutes, i + 1)
         ELSE LET r == SetRouteResult(st.routes, st.clients, entry.source, entry.dest,
                                      ClaimedEntryGain(entry), ClaimedEntryEnabled(entry))
              IN SetRouteEach([routes |-> r.routes, clients |-> r.clients,
                               ret |-> st.ret \/ r.ret], inRoutes, i + 1)

\* C10: SetRoutesFromArray leaves the graph and every client's routing
\* buffer as SetRoute called on each entry in the list's order does (a
\* missing gain read as 1.0, a missing enabled flag as true, entries
\* without source or destination skipped), and returns the logical OR of
\* those calls' results.
C10_ArrayIsSetRouteOnEachEntry ==
    \A a \in RouteArrays :
        LET x == SetRoutesFromArrayResult(mRoutes, clients, a)
            y == SetRouteEach([routes |-> mRoutes, clients |-> clients, ret |-> FALSE], a, 1)
        IN /\ x.routes = y.routes
           /\ x.clients = y.clients
           /\ x.ret = y.ret

\* C10's case: a SetRoutesFromArray call has returned true, leaving two
\* edges and an allocated routing buffer.
C10_Witness ==
    /\ last.op = "SetRoutesFromArray" /\ last.ret = "true"
    /\ Len(mRoutes) = 2
    /\ \E c \in DOMAIN clients : clients[c].mRoutingBufferAllocated

(***************************************************************************)
(* The clearing specification: the processes and the edges of spec         *)
(* scenario S6, and one more edge; clients attach from two of the          *)
(* processes, routes are set and cleared.                                  *)
(***************************************************************************)
ClearPIDs == {200, 201, 202, 203}
ClearPairs == {<<200, 201>>, <<202, 201>>, <<200, 203>>, <<202, 203>>}
\* What the routes are set to: enabled at full gain, disabled at half gain.
ClearSettings == {<<kDefaultGain, TRUE>>, <<50, FALSE>>}

NextClear ==
    \/ \E c \in ClientIDs : Serial(AddClient(c, RouteClientPID(c), "com.example.player"))
    \/ \E p \in ClearPairs, ge \in ClearSettings : Serial(SetRoute(p[1], p[2], ge[1], ge[2]))
    \/ \E pid \in ClearPIDs : Serial(ClearRoutesForClient(pid))

SpecClear == Init /\ [][NextClear]_vars

\* The set of edges of a graph.
EdgeSet(routes) == {routes[i] : i \in 1..Len(routes)}

\* C11: the list CopyRoutesAsArray returns for the graph, fed into
\* SetRoutesFromArray on an empty graph, gives a graph with the same set of
\* edges (source, destination, gain, enabled), disabled edges included.
C11_CopyThenSetFromArrayKeepsEdges ==
    (last.op = "CopyRoutesAsArray") =>
        EdgeSet(SetRoutesFromArrayResult(<<>>, clients, last.args[1]).routes)
            = EdgeSet(mRoutes)

\* C12: ClearRoutesForClient(pid) removes exactly the edges whose source or
\* destination is pid, leaves every other edge with its gain, its enabled
\* flag and its place relative to the others, and leaves the routing buffer
\* of every client of that process deallocated; from the edges 200->201,
\* 202->201, 200->203 of scenario S6, clearing 200 leaves 202->201 alone.
C12_ClearRemovesExactlyTheEdgesOfThePID ==
    [][ (last'.op = "ClearRoutesForClient") =>
            LET pid == last'.args[1] IN
            /\ \A j \in 1..Len(mRoutes') :
                  /\ mRoutes'[j].mSourcePID # pid /\ mRoutes'[j].mDestPID # pid
                  /\ \E i \in 1..Len(mRoutes) : mRoutes[i] = mRoutes'[j]
            /\ \A i \in 1..Len(mRoutes) :
                  (mRoutes[i].mSourcePID # pid /\ mRoutes[i].mDestPID # pid)
                      => \E j \in 1..Len(mRoutes') : mRoutes'[j] = mRoutes[i]
            /\ \A j1, j2 \in 1..Len(mRoutes') :
                  (j1 < j2) => \E i1, i2 \in 1..Len(mRoutes) :
                                  /\ i1 < i2
                                  /\ mRoutes[i1] = mRoutes'[j1]
                                  /\ mRoutes[i2] = mRoutes'[j2]
            /\ \A c \in DOMAIN clients :
                  (clients[c].mProcessID = pid)
                      => /\ c \in DOMAIN clients'
                         /\ ~clients'[c].mRoutingBufferAllocated
            /\ (pid = 200 /\ {PairsOf(mRoutes)[i] : i \in 1..Len(mRoutes)}
                                = {<<200, 201>>, <<202, 201>>, <<200, 203>>})
                  => PairsOf(mRoutes') = << <<202, 201>> >>
      ]_vars

\* C12's case: ClearRoutesForClient has erased edges of a process that a
\* client is attached from and has left two edges of other processes.
C12_Witness ==
    /\ last.op = "ClearRoutesForClient" /\ last.branch = "erased"
    /\ Len(mRoutes) = 2
    /\ \E c \in DOMAIN clients :
          /\ clients[c].mProcessID = last.args[1]
          /\ ~clients[c].mRoutingBufferAllocated


(***************************************************************************)
(* The routing buffer (BGM_Client.cpp:88-137).  A sample is an integer; a  *)
(* buffer of frames is the samples interleaved, left then right.           *)
(***************************************************************************)
\* Line 100: the place of the frame at writePos in the buffer.
BufferOffset(pos) == (pos % kRoutingBufferFrames) * kRoutingBufferChannels

\* Lines 100-102: one frame of inBuffer put in the buffer (C++ indexes from
\* 0, a sequence from 1).
StoreFrame(buffer, inBuffer, writePos, frame) ==
    [buffer EXCEPT ![BufferOffset(writePos) + 0 + 1] = inBuffer[frame * 2 + 0 + 1],
                   ![BufferOffset(writePos) + 1 + 1] = inBuffer[frame * 2 + 1 + 1]]

\* Lines 98-104: the loop from frame on; gives the buffer and writePos.
RECURSIVE StoreLoop(_, _, _, _, _)
StoreLoop(buffer, inBuffer, writePos, frame, inFrameCount) ==
    IF frame >= inFrameCount THEN [buffer |-> buffer, writePos |-> writePos]
    ELSE StoreLoop(StoreFrame(buffer, inBuffer, writePos, frame), inBuffer,
                   writePos + 1, frame + 1, inFrameCount)

\* The frames of an interleaved buffer, each a pair <<left, right>>.
FramesOf(inBuffer, inFrameCount) ==
    [k \in 1..inFrameCount |-> <<inBuffer[2 * k - 1], inBuffer[2 * k]>>]

\* BGM_Client::StoreToRoutingBuffer.
StoreToRoutingBuffer(theClient, inBuffer, inFrameCount, inSampleTime) ==
    IF ~theClient.mRoutingBufferAllocated \/ theClient.mRoutingBuffer = nullptr
    THEN theClient
    ELSE LET r == StoreLoop(theClient.mRoutingBuffer, inBuffer,
                            theClient.mRoutingBufferWritePos, 0, inFrameCount)
         IN [theClient EXCEPT !.mRoutingBuffer = r.buffer,
                              !.mRoutingBufferWritePos = r.writePos,
                              !.mRoutingBufferSampleTime = inSampleTime + inFrameCount,
                              !.written = theClient.written
                                            \o FramesOf(inBuffer, inFrameCount)]

\* Line 127: the position Fetch reads, inSampleOffset frames back.
TargetPos_OneLater(readPos, inSampleOffset) == readPos - inSampleOffset + 1
TargetPos(readPos, inSampleOffset) == readPos - inSampleOffset

\* Lines 127-136: the index into the storage that Fetch reads, from 0.
FetchIndex(readPos, inChannel, inSampleOffset) ==
    BufferOffset(TargetPos(readPos, inSampleOffset)) + inChannel

\* Lines 112, 122, 131: the way Fetch returns.
FetchBranch(theClient, inChannel, inSampleOffset) ==
    IF ~theClient.mRoutingBufferAllocated \/ theClient.mRoutingBuffer = nullptr
    THEN "notAllocated"
    ELSE IF theClient.mRoutingBufferWritePos < inSampleOffset THEN "underflow"
    ELSE IF inChannel < 0 \/ inChannel >= kRoutingBufferChannels THEN "badChannel"
    ELSE "read"

\* BGM_Client::FetchFromRoutingBuffer, reading writePos as it is.
FetchFromRoutingBuffer(theClient, inChannel, inSampleOffset) ==
    IF FetchBranch(theClient, inChannel, inSampleOffset) # "read" THEN 0
    ELSE theClient.mRoutingBuffer[
             FetchIndex(theClient.mRoutingBufferWritePos, inChannel, inSampleOffset) + 1]


(***************************************************************************)
(* The RT audio path (BGM_Clients.cpp:656-792).  A pointer to a client is  *)
(* the client's id.  The io buffer holds hundredths of a sample, so that   *)
(* a sample times a gain (in hundredths) is an integer.                    *)
(***************************************************************************)
\* The pointer GetClientPtrRT and GetClientByPIDRT return for no client.
NoClient == 0

\* BGM_ClientMap::GetClientPtrRT.
GetClientPtrRT(map, inClientID) ==
    IF inClientID \in DOMAIN map THEN inClientID ELSE NoClient

\* BGM_ClientMap::GetClientByPIDRT: a client of that process, the first.
GetClientByPIDRT(map, inPID) ==
    LET found == {c \in DOMAIN map : map[c].mProcessID = inPID}
    IN IF found = {} THEN NoClient
       ELSE CHOOSE c \in found : \A d \in found : c <= d

\* Float32 multiplication and addition.
F32_Mul(a, b) == IF a = F32_NaN \/ b = F32_NaN THEN F32_NaN ELSE a * b
F32_Add(a, b) == IF a = F32_NaN \/ b = F32_NaN THEN F32_NaN ELSE a + b

\* Lines 666-674: an enabled edge starts at the client's process.
IsRoutingSource_AnyEdge(routes, theClient) ==
    \E i \in 1..Len(routes) : routes[i].mSourcePID = theClient.mProcessID
IsRoutingSource(routes, theClient) ==
    \E i \in 1..Len(routes) :
        routes[i].mEnabled /\ routes[i].mSourcePID = theClient.mProcessID

StoreClientAudioRT(inClientID, inBuffer, inNumFrames) ==
    LET op == "StoreClientAudioRT"
        args == <<inClientID, inBuffer, inNumFrames>>
        theClient == GetClientPtrRT(clients, inClientID)
    IN
    IF theClient = NoClient
    THEN \* line 662
         /\ last' = Quiet(op, args, "void", "noClient")
         /\ UNCHANGED <<clients, ioVars, mBGMAppClientID, mpVars, mRoutes>>
    ELSE IF ~IsRoutingSource(mRoutes, clients[theClient])
    THEN \* line 676 is false
         /\ last' = Quiet(op, args, "void", "notSource")
         /\ UNCHANGED <<clients, ioVars, mBGMAppClientID, mpVars, mRoutes>>
    ELSE \* line 685
         /\ Len(clients[theClient].written) + inNumFrames <= MaxStored
         /\ clients' = [clients EXCEPT ![theClient] =
                            StoreToRoutingBuffer(@, inBuffer, inNumFrames, 0)]
         /\ last' = Quiet(op, args, "void",
                          IF clients[theClient].mRoutingBufferAllocated
                          THEN "stored" ELSE "noBuffer")
         /\ UNCHANGED <<ioVars, mBGMAppClientID, mpVars, mRoutes>>

\* Line 746: the routed sample is added to the one in the io buffer.
MixSample_Overwrite(ioSample, routedSample) == routedSample
MixSample(ioSample, routedSample) == F32_Add(ioSample, routedSample)

\* Line 739: how far back output frame "frame" of inNumFrames is read.
SampleOffset(inNumFrames, frame) == inNumFrames - frame

\* Lines 732-748: the loop over the frames, from frame on.
RECURSIVE MixFrames(_, _, _, _, _)
MixFrames(io, sourceClient, gain, frame, inNumFrames) ==
    IF frame >= inNumFrames THEN io
    ELSE LET sampleOffset == SampleOffset(inNumFrames, frame)
             leftSample == FetchFromRoutingBuffer(sourceClient, 0, sampleOffset)
             rightSample == FetchFromRoutingBuffer(sourceClient, 1, sampleOffset)
         IN MixFrames([io EXCEPT
                          ![frame * 2 + 1] = MixSample(@, F32_Mul(leftSample, gain)),
                          ![frame * 2 + 1 + 1] = MixSample(@, F32_Mul(rightSample, gain))],
                      sourceClient, gain, frame + 1, inNumFrames)

\* Lines 704-757: the loop over the edges, from edge i on.
RECURSIVE MixRoutes(_, _, _, _, _, _)
MixRoutes(io, map, routes, destPID, i, inNumFrames) ==
    IF i > Len(routes) THEN io
    ELSE IF ~routes[i].mEnabled \/ routes[i].mDestPID # destPID
    THEN MixRoutes(io, map, routes, destPID, i + 1, inNumFrames)
    ELSE LET sourceClient == GetClientByPIDRT(map, routes[i].mSourcePID) IN
         IF sourceClient = NoClient
         THEN MixRoutes(io, map, routes, destPID, i + 1, inNumFrames)
         ELSE MixRoutes(MixFrames(io, map[sourceClient], routes[i].mGain, 0, inNumFrames),
                        map, routes, destPID, i + 1, inNumFrames)

\* The io buffer MixRoutedAudioRT leaves when no other thread runs.
MixRoutedAudioResult(map, routes, inClientID, io, inNumFrames) ==
    LET destClient == GetClientPtrRT(map, inClientID) IN
    IF destClient = NoClient THEN io
    ELSE MixRoutes(io, map, routes, map[destClient].mProcessID, 1, inNumFrames)

MixRoutedAudioRT(inClientID, io, inNumFrames) ==
    /\ ioBuffer' = MixRoutedAudioResult(clients, mRoutes, inClientID, io, inNumFrames)
    /\ last' = Quiet("MixRoutedAudioRT", <<inClientID, io, inNumFrames>>, "void",
                     IF ioBuffer' # io THEN "mixed" ELSE "none")
    /\ UNCHANGED <<clients, ioVars, mBGMAppClientID, mpVars, mRoutes, threadVars>>

\* Lines 781-791: an enabled edge ends at the process.
HasIncomingRoute_AnyEdge(routes, clientPID) ==
    \E i \in 1..Len(routes) : routes[i].mDestPID = clientPID
HasIncomingRoute(routes, clientPID) ==
    \E i \in 1..Len(routes) : routes[i].mEnabled /\ routes[i].mDestPID = clientPID

\* What HasIncomingRoutesRT returns.
HasIncomingRoutesResult(map, routes, inClientID) ==
    LET theClient == GetClientPtrRT(map, inClientID) IN
    IF theClient = NoClient THEN FALSE
    ELSE HasIncomingRoute(routes, map[theClient].mProcessID)

HasIncomingRoutesRT(inClientID) ==
    /\ last' = Quiet("HasIncomingRoutesRT", <<inClientID>>,
                     Bool(HasIncomingRoutesResult(clients, mRoutes, inClientID)),
                     IF inClientID \in DOMAIN clients THEN "client" ELSE "noClient")
    /\ UNCHANGED <<clients, ioVars, mBGMAppClientID, mpVars, mRoutes>>

(***************************************************************************)
(* The audio specification: clients attach, routes are set, and the RT     *)
(* calls run one at a time.  A client's audio is numbered: its k-th frame  *)
(* carries two samples no other frame carries.                             *)
(***************************************************************************)
\* Channel ch of the k-th frame (k = 1, 2, ...) client c produces.
Sample(c, k, ch) == 100 * c + 2 * k + ch

\* The next inNumFrames frames of client c, interleaved, after those in
\* the history "written".
ProducedAudio(c, written, inNumFrames) ==
    [j \in 1..(2 * inNumFrames) |->
        Sample(c, Len(written) + ((j + 1) \div 2), (j + 1) % 2)]

\* The history of a client's routing buffer, empty for no client.
WrittenBy(c) == IF c \in DOMAIN clients THEN clients[c].written ELSE <<>>

\* The io buffers a destination hands to MixRoutedAudioRT: silence, and a
\* buffer of its own audio.
IOBuffers(inNumFrames) ==
    {[j \in 1..(2 * inNumFrames) |-> 0], [j \in 1..(2 * inNumFrames) |-> 100 * j]}

\* The edges set, <<source, destination, gain>>: into process 201 from
\* process 200 at full gain and from itself at half gain.
AudioEdges == {<<200, 201, kDefaultGain>>, <<201, 201, 50>>}

NextAudio ==
    \/ \E c \in RouteClientIDs : Serial(AddClient(c, RouteClientPID(c), "com.example.player"))
    \/ \E p \in AudioEdges, e \in BOOLEAN : Serial(SetRoute(p[1], p[2], p[3], e))
    \/ \E c \in RouteClientIDs, n \in 1..MaxFrames :
          Serial(StoreClientAudioRT(c, ProducedAudio(c, WrittenBy(c), n), n))
    \/ \E c \in RouteClientIDs, n \in 1..MaxFrames : \E io \in IOBuffers(n) :
          MixRoutedAudioRT(c, io, n)
    \/ \E c \in RouteClientIDs : Serial(HasIncomingRoutesRT(c))

SpecAudio == Init /\ [][NextAudio]_vars


(***************************************************************************)
(* Properties of the routing buffer and of the RT audio path.              *)
(***************************************************************************)
Min(a, b) == IF a <= b THEN a ELSE b
Channels == {0, 1}

\* C13: for an allocated routing buffer that Store calls have put W frames
\* in, Fetch(channel, n) returns, for both channels and every n from 1 to
\* the smaller of W and the capacity, that channel of the frame written at
\* position W - n (n = 1 being the newest), also after the writes wrapped.
C13_FetchReturnsFrameWrittenNBack ==
    \A c \in DOMAIN clients :
        clients[c].mRoutingBufferAllocated =>
            LET W == Len(clients[c].written) IN
            \A ch \in Channels, n \in 1..Min(W, kRoutingBufferFrames) :
                FetchFromRoutingBuffer(clients[c], ch, n)
                    = clients[c].written[(W - n) + 1][ch + 1]

\* C13's case: a Store call has put frames in a buffer that has taken more
\* frames than it holds.
C13_Witness ==
    /\ last.op = "StoreClientAudioRT" /\ last.branch = "stored"
    /\ Len(clients[last.args[1]].written) > kRoutingBufferFrames

\* The enabled edges into destPID whose source process has a client.
MixedEdges(destPID) ==
    {i \in 1..Len(mRoutes) :
        /\ mRoutes[i].mEnabled
        /\ mRoutes[i].mDestPID = destPID
        /\ GetClientByPIDRT(clients, mRoutes[i].mSourcePID) # NoClient}

\* The sum over the edges of gain * Fetch(ch, offset) on the edge's source.
RECURSIVE RoutedSum(_, _, _)
RoutedSum(edges, ch, offset) ==
    IF edges = {} THEN 0
    ELSE LET i == CHOOSE e \in edges : TRUE
             source == clients[GetClientByPIDRT(clients, mRoutes[i].mSourcePID)]
         IN F32_Add(F32_Mul(FetchFromRoutingBuffer(source, ch, offset), mRoutes[i].mGain),
                    RoutedSum(edges \ {i}, ch, offset))

C16_HasIncomingIffEnabledEdgeAndMixNoOp ==
    /\ (last.op = "HasIncomingRoutesRT") =>
          ((last.ret = "true") <=>
              /\ last.args[1] \in DOMAIN clients
              /\ \E i \in 1..Len(mRoutes) :
                    /\ mRoutes[i].mEnabled
                    /\ mRoutes[i].mDestPID = clients[last.args[1]].mProcessID)
    /\ \A c \in RouteClientIDs, n \in 1..MaxFrames : \A io \in IOBuffers(n) :
          ~HasIncomingRoutesResult(clients, mRoutes, c)
              => MixRoutedAudioResult(clients, mRoutes, c, io, n) = io

\* C16's case: HasIncomingRoutesRT has returned false for an attached
\* client whose process a disabled edge ends at, the edge's source holding
\* frames.
C16_Witness ==
    /\ last.op = "HasIncomingRoutesRT" /\ last.ret = "false"
    /\ last.args[1] \in DOMAIN clients
    /\ \E i \in 1..Len(mRoutes) :
          /\ ~mRoutes[i].mEnabled
          /\ mRoutes[i].mDestPID = clients[last.args[1]].mProcessID
          /\ \E s \in DOMAIN clients :
                /\ clients[s].mProcessID = mRoutes[i].mSourcePID
                /\ clients[s].written # <<>>


(***************************************************************************)
(* The RT audio path, two threads.  The IO thread of a routing source runs *)
(* StoreClientAudioRT while the IO thread of a destination runs            *)
(* MixRoutedAudioRT; a step is one sample written, one load or store of    *)
(* mRoutingBufferWritePos, or one sample read.  Loads and stores take      *)
(* effect in the order of the steps.  The buffer takes no more frames than *)
(* it holds, so no frame is written over.                                  *)
(***************************************************************************)
\* The rest of the state, which the RT calls leave alone.
nrtVars == <<ioVars, mBGMAppClientID, mpVars, mRoutes, mMutex, nrtThread>>

\* StoreClientAudioRT up to the load of the write position
\* (BGM_Clients.cpp:659-685, BGM_Client.cpp:90-96).
StoreRT_Begin(inClientID, inBuffer, inNumFrames) ==
    LET args == <<inClientID, inBuffer, inNumFrames>>
        theClient == GetClientPtrRT(clients, inClientID)
        returns == \/ theClient = NoClient
                   \/ ~IsRoutingSource(mRoutes, clients[theClient])
                   \/ ~clients[theClient].mRoutingBufferAllocated
                   \/ clients[theClient].mRoutingBuffer = nullptr
    IN /\ rtThread["store"] = Idle
       /\ IF returns
          THEN /\ last' = Quiet("StoreClientAudioRT", args, "void", "returned")
               /\ ioBuffer' = <<>>
               /\ UNCHANGED rtThread
          ELSE /\ Len(clients[theClient].written) + inNumFrames <= kRoutingBufferFrames
               /\ rtThread' = [rtThread EXCEPT !["store"] =
                      [pc |-> "write", client |-> theClient, inBuffer |-> inBuffer,
                       inFrameCount |-> inNumFrames, frame |-> 0, ch |-> 0,
                       writePos |-> clients[theClient].mRoutingBufferWritePos]]
               /\ UNCHANGED <<last, ioBuffer>>
       /\ UNCHANGED <<clients, nrtVars>>

\* delete[] mRoutingBuffer (BGM_Client.cpp:81) has run since the storage was
\* allocated: the client has no storage.
StorageFreed(theClient) == theClient.mRoutingBuffer = nullptr

\* What a read of freed storage may return: the zero the buffer began with
\* or anything else.
FreedSamples == {0, 999}

\* BGM_Client.cpp:100-103: one sample written; after the right one the
\* local writePos and the frame advance.  A write to storage that has been
\* freed since line 90 changes nothing the client owns (or ends the
\* process, after which there is no step).
StoreRT_WriteSample ==
    LET t == rtThread["store"] IN
    /\ t.pc = "write"
    /\ clients' = IF StorageFreed(clients[t.client]) THEN clients
                  ELSE [clients EXCEPT
           ![t.client].mRoutingBuffer[BufferOffset(t.writePos) + t.ch + 1] =
               t.inBuffer[t.frame * 2 + t.ch + 1]]
    /\ rtThread' = [rtThread EXCEPT !["store"] =
           IF t.ch = 0 THEN [t EXCEPT !.ch = 1]
           ELSE [t EXCEPT !.ch = 0, !.writePos = @ + 1, !.frame = @ + 1,
                          !.pc = IF t.frame + 1 >= t.inFrameCount
                                 THEN "publish" ELSE "write"]]
    /\ UNCHANGED <<last, ioBuffer, nrtVars>>

\* BGM_Client.cpp:106-107: the write position stored, and the return.
StoreRT_Publish ==
    LET t == rtThread["store"] IN
    /\ t.pc = "publish"
    /\ clients' = [clients EXCEPT
           ![t.client].mRoutingBufferWritePos = t.writePos,
           ![t.client].mRoutingBufferSampleTime = 0 + t.inFrameCount,
           ![t.client].written = @ \o FramesOf(t.inBuffer, t.inFrameCount)]
    /\ rtThread' = [rtThread EXCEPT !["store"] = Idle]
    /\ last' = Quiet("StoreClientAudioRT", <<t.client, t.inBuffer, t.inFrameCount>>,
                     "void", "stored")
    /\ ioBuffer' = <<>>
    /\ UNCHANGED nrtVars

\* BGM_Clients.cpp:704-719: the next edge at or after "from" that is mixed,
\* 0 if none.
NextMixedRoute(map, routes, destPID, from) ==
    LET found == {i \in from..Len(routes) :
                     /\ routes[i].mEnabled
                     /\ routes[i].mDestPID = destPID
                     /\ GetClientByPIDRT(map, routes[i].mSourcePID) # NoClient}
    IN IF found = {} THEN 0
       ELSE CHOOSE i \in found : \A j \in found : i <= j

\* The mix thread at the first frame of edge i (lines 714, 727), or done.
MixAtRoute(t, i) ==
    IF i = 0 THEN [t EXCEPT !.pc = "done"]
    ELSE [t EXCEPT !.pc = "load", !.route = i, !.frame = 0, !.ch = 0,
                   !.source = GetClientByPIDRT(clients, mRoutes[i].mSourcePID),
                   !.gain = mRoutes[i].mGain]

\* MixRoutedAudioRT up to the first Fetch (lines 692-739).
MixRT_Begin(inClientID, io, inNumFrames) ==
    LET destClient == GetClientPtrRT(clients, inClientID)
        destPID == IF destClient = NoClient THEN 0 ELSE clients[destClient].mProcessID
        t == [pc |-> "done", client |-> inClientID, destPID |-> destPID,
              ioBefore |-> io, io |-> io, inNumFrames |-> inNumFrames,
              route |-> 0, frame |-> 0, ch |-> 0, source |-> NoClient, gain |-> 0,
              readPos |-> 0, left |-> 0, fetched |-> <<>>]
    IN /\ rtThread["mix"] = Idle
       /\ rtThread' = [rtThread EXCEPT !["mix"] =
              IF destClient = NoClient THEN t
              ELSE MixAtRoute(t, NextMixedRoute(clients, mRoutes, destPID, 1))]
       /\ UNCHANGED <<clients, last, ioBuffer, nrtVars>>

\* The mix thread once a Fetch has returned sample: the left sample is
\* kept; with the right one the frame is mixed (lines 746-747) and the loop
\* goes to the next frame, the next edge or the end.
MixGotSample(t, sample) ==
    IF t.ch = 0 THEN [t EXCEPT !.pc = "load", !.left = sample, !.ch = 1]
    ELSE LET u == [t EXCEPT
                      !.io[t.frame * 2 + 1] = MixSample(@, F32_Mul(t.left, t.gain)),
                      !.io[t.frame * 2 + 1 + 1] = MixSample(@, F32_Mul(sample, t.gain)),
                      !.fetched = Append(@, <<t.left, sample>>)]
         IN IF t.frame + 1 < t.inNumFrames
            THEN [u EXCEPT !.pc = "load", !.frame = @ + 1, !.ch = 0]
            ELSE MixAtRoute(u, NextMixedRoute(clients, mRoutes, t.destPID, t.route + 1))

\* BGM_Client.cpp:112-125: Fetch up to the load of the write position.
MixRT_LoadWritePos ==
    LET t == rtThread["mix"]
        source == clients[t.source]
        sampleOffset == SampleOffset(t.inNumFrames, t.frame)
    IN /\ t.pc = "load"
       /\ rtThread' = [rtThread EXCEPT !["mix"] =
              IF ~source.mRoutingBufferAllocated \/ source.mRoutingBuffer = nullptr
              THEN MixGotSample(t, 0)
              ELSE IF source.mRoutingBufferWritePos < sampleOffset
              THEN MixGotSample(t, 0)
              ELSE [t EXCEPT !.pc = "read", !.readPos = source.mRoutingBufferWritePos]]
       /\ UNCHANGED <<clients, last, ioBuffer, nrtVars>>

\* BGM_Client.cpp:127-136: the sample read.  A read of storage that has
\* been freed since line 112 returns any value (or ends the process).
MixRT_ReadSample ==
    LET t == rtThread["mix"]
        source == clients[t.source]
        sampleOffset == SampleOffset(t.inNumFrames, t.frame)
        samples == IF StorageFreed(source) THEN FreedSamples
                   ELSE {source.mRoutingBuffer[
                            BufferOffset(TargetPos(t.readPos, sampleOffset)) + t.ch + 1]}
    IN /\ t.pc = "read"
       /\ \E sample \in samples :
             rtThread' = [rtThread EXCEPT !["mix"] = MixGotSample(t, sample)]
       /\ UNCHANGED <<clients, last, ioBuffer, nrtVars>>

\* Line 766: MixRoutedAudioRT returns.
MixRT_Return ==
    LET t == rtThread["mix"] IN
    /\ t.pc = "done"
    /\ ioBuffer' = t.io
    /\ last' = Quiet("MixRoutedAudioRT", <<t.client, t.ioBefore, t.inNumFrames>>,
                     "void", IF t.fetched # <<>> THEN "mixed" ELSE "none")
    /\ rtThread' = [rtThread EXCEPT !["mix"] = Idle]
    /\ UNCHANGED <<clients, nrtVars>>

\* The edge of the two-thread specification: process 200 into process 201.
ThreadedEdges == {<<200, 201, kDefaultGain>>}

NextRTThreads ==
    \/ \E c \in RouteClientIDs : Serial(AddClient(c, RouteClientPID(c), "com.example.player"))
    \/ \E p \in ThreadedEdges : Serial(SetRoute(p[1], p[2], p[3], TRUE))
    \/ \E c \in RouteClientIDs, n \in 1..MaxFrames :
          StoreRT_Begin(c, ProducedAudio(c, WrittenBy(c), n), n)
    \/ StoreRT_WriteSample
    \/ StoreRT_Publish
    \/ \E c \in RouteClientIDs, n \in 1..MaxFrames :
          MixRT_Begin(c, [j \in 1..(2 * n) |-> 0], n)
    \/ MixRT_LoadWritePos
    \/ MixRT_ReadSample
    \/ MixRT_Return

SpecRTThreads == Init /\ [][NextRTThreads]_vars

\* C17: when MixRoutedAudioRT on a destination runs while StoreClientAudioRT
\* runs on its source, the left and the right sample mixed into an output
\* frame are those of one frame the source stored (or both silence, before
\* the source's first frame), and the frames mixed by one call are
\* consecutive frames of the source, in the order it produced them.
C17_MixReadsWholeConsecutiveFrames ==
    (rtThread["mix"].pc = "done") =>
        LET f == rtThread["mix"].fetched
            n == rtThread["mix"].inNumFrames
        IN /\ \A i \in 1..Len(f) :
                 \/ f[i] = <<0, 0>>
                 \/ f[i][1] # 0 /\ f[i][2] = f[i][1] + 1
           /\ \A i \in 1..(Len(f) - 1) :
                 (i % n # 0) => \/ f[i] = <<0, 0>>
                                \/ f[i + 1][1] = f[i][1] + 2

(***************************************************************************)
(* SetClientsRelativeVolumes (BGM_Clients.cpp:318-453).  A request entry   *)
(* is a dictionary: a function whose domain is the set of keys it carries. *)
(***************************************************************************)
\* CACFDictionary::GetSInt32 / GetCACFString: whether the key is there.
HasKey(d, key) == key \in DOMAIN d

\* Line 356: mRelativeVolumeCurve.ConvertRawToScalar(raw) * 4, the curve
\* being pow(x, 2) of the raw value's place in its range; in hundredths.
RelativeVolumeOf(theRawRelativeVolume) ==
    (4 * theRawRelativeVolume * theRawRelativeVolume) \div 100

\* BGM_ClientMap: the clients of a process, and those of a bundle id (none
\* for a string that is not valid).
ClientsByPID(map, pid) == {c \in DOMAIN map : map[c].mProcessID = pid}
ClientsByBundleID(map, bundleID) ==
    IF bundleID = InvalidString THEN {}
    ELSE {c \in DOMAIN map : map[c].mBundleID = bundleID}

\* BGM_ClientMap::SetClientsRelativeVolume, SetClientsPanPosition and
\* SetClientsEQ, on the clients found by the key: the map afterwards.  Each
\* returns whether a client record changed.
SetClientsRelativeVolume(map, found, inRelativeVolume) ==
    [c \in DOMAIN map |->
        IF c \in found THEN [map[c] EXCEPT !.mRelativeVolume = inRelativeVolume]
        ELSE map[c]]
SetClientsPanPosition(map, found, inPanPosition) ==
    [c \in DOMAIN map |->
        IF c \in found THEN [map[c] EXCEPT !.mPanPosition = inPanPosition]
        ELSE map[c]]
SetClientsEQ(map, found, lowDB, midDB, highDB) ==
    [c \in DOMAIN map |->
        IF c \in found
        THEN [map[c] EXCEPT
                 !.mEQLowGain = IF lowDB = kAppEQGainNoValue THEN @ ELSE lowDB,
                 !.mEQMidGain = IF midDB = kAppEQGainNoValue THEN @ ELSE midDB,
                 !.mEQHighGain = IF highDB = kAppEQGainNoValue THEN @ ELSE highDB]
        ELSE map[c]]

\* ThrowIf: the loop state once the exception has left the method.
Throw(st, exception, branch) == [st EXCEPT !.thrown = exception, !.branch = branch]

\* Lines 342-373 on the loop state st.
VolumePart(st, d, theAppPID, theAppBundleID) ==
    IF ~HasKey(d, "relative_volume") THEN st
    ELSE IF \/ d.relative_volume < kAppRelativeVolumeMinRawValue
            \/ d.relative_volume > kAppRelativeVolumeMaxRawValue
    THEN Throw(st, "BGM_InvalidClientRelativeVolumeException", "volumeRange")
    ELSE LET theRelativeVolume == RelativeVolumeOf(d.relative_volume)
             byPID == SetClientsRelativeVolume(st.clients,
                          ClientsByPID(st.clients, theAppPID), theRelativeVolume)
             byBundleID == SetClientsRelativeVolume(byPID,
                          ClientsByBundleID(byPID, theAppBundleID), theRelativeVolume)
         IN [st EXCEPT !.clients = byBundleID,
                       !.changed = @ \/ byBundleID # st.clients]

\* Lines 375-397.
PanPart(st, d, theAppPID, theAppBundleID) ==
    IF st.thrown # "" \/ ~HasKey(d, "pan_position") THEN st
    ELSE IF \/ d.pan_position < kAppPanLeftRawValue
            \/ d.pan_position > kAppPanRightRawValue
    THEN Throw(st, "BGM_InvalidClientPanPositionException", "panRange")
    ELSE LET byPID == SetClientsPanPosition(st.clients,
                          ClientsByPID(st.clients, theAppPID), d.pan_position)
             byBundleID == SetClientsPanPosition(byPID,
                          ClientsByBundleID(byPID, theAppBundleID), d.pan_position)
         IN [st EXCEPT !.clients = byBundleID,
                       !.changed = @ \/ byBundleID # st.clients]

\* Lines 410, 415, 420: the value is outside the range of an EQ gain.
EQOutOfRange(d, key) ==
    HasKey(d, key) /\ (d[key] < kAppEQGainMinRawValue \/ d[key] > kAppEQGainMaxRawValue)

\* Lines 426-428: the gain passed on for a band.
EQGainOf(d, key) == IF HasKey(d, key) THEN d[key] ELSE kAppEQGainNoValue

\* Lines 399-445.  didGetEQ is set when a call of SetClientsEQ returns true.
EQPart(st, d, theAppPID, theAppBundleID) ==
    IF st.thrown # "" THEN st
    ELSE IF ~(HasKey(d, "eq_low_gain") \/ HasKey(d, "eq_mid_gain") \/ HasKey(d, "eq_high_gain"))
    THEN st
    ELSE IF \/ EQOutOfRange(d, "eq_low_gain")
            \/ EQOutOfRange(d, "eq_mid_gain")
            \/ EQOutOfRange(d, "eq_high_gain")
    THEN Throw(st, "BGM_InvalidClientRelativeVolumeException", "eqRange")
    ELSE LET lowDB == EQGainOf(d, "eq_low_gain")
             midDB == EQGainOf(d, "eq_mid_gain")
             highDB == EQGainOf(d, "eq_high_gain")
             byPID == SetClientsEQ(st.clients,
                          ClientsByPID(st.clients, theAppPID), lowDB, midDB, highDB)
             byBundleID == SetClientsEQ(byPID,
                          ClientsByBundleID(byPID, theAppBundleID), lowDB, midDB, highDB)
             didChange == byPID # st.clients \/ byBundleID # byPID
         IN [st EXCEPT !.clients = byBundleID,
                       !.changed = @ \/ didChange,
                       !.didGetEQ = didChange]

\* Line 447.
FieldCheck(st, d) ==
    IF st.thrown # "" THEN st
    ELSE IF ~HasKey(d, "relative_volume") /\ ~HasKey(d, "pan_position") /\ ~st.didGetEQ
    THEN Throw(st, "BGM_InvalidClientRelativeVolumeException", "noField")
    ELSE st

\* Lines 326-449: one turn of the loop.  theAppPID is not initialised, and
\* GetSInt32 leaves it alone when the key is missing: it then holds uninit.
VolumeStep(st, d, uninit) ==
    LET theAppPID == IF HasKey(d, "process_id") THEN d.process_id ELSE uninit
        theAppBundleID == IF HasKey(d, "bundle_id") THEN d.bundle_id ELSE InvalidString
        start == [st EXCEPT !.entryStart = st.clients, !.processed = @ + 1,
                            !.didGetEQ = FALSE]
    IN IF ~HasKey(d, "process_id") /\ theAppBundleID = InvalidString
       THEN Throw(start, "BGM_InvalidClientRelativeVolumeException", "noID")
       ELSE FieldCheck(EQPart(PanPart(VolumePart(start, d, theAppPID, theAppBundleID),
                                      d, theAppPID, theAppBundleID),
                              d, theAppPID, theAppBundleID), d)

\* Lines 324-450: the loop, from entry i on, until an exception.
RECURSIVE VolumeLoop(_, _, _, _)
VolumeLoop(st, inAppVolumes, uninit, i) ==
    IF i > Len(inAppVolumes) \/ st.thrown # "" THEN st
    ELSE VolumeLoop(VolumeStep(st, inAppVolumes[i], uninit), inAppVolumes, uninit, i + 1)

\* The client map after SetClientsRelativeVolumes, the exception thrown if
\* any, and didChangeAppVolumes; "processed" is the number of entries the
\* loop started on and "entryStart" the client map when it started on the
\* last of them.
SetClientsRelativeVolumesResult(map, inAppVolumes, uninit) ==
    VolumeLoop([clients |-> map, changed |-> FALSE, thrown |-> "", branch |-> "returned",
                didGetEQ |-> FALSE, entryStart |-> map, processed |-> 0],
               inAppVolumes, uninit, 1)

SetClientsRelativeVolumes(inAppVolumes, uninit) ==
    LET r == SetClientsRelativeVolumesResult(clients, inAppVolumes, uninit)
    IN /\ clients' = r.clients
       /\ last' = Quiet("SetClientsRelativeVolumes", <<inAppVolumes, uninit>>,
                        IF r.thrown # "" THEN r.thrown ELSE Bool(r.changed), r.branch)
       /\ UNCHANGED <<ioVars, mBGMAppClientID, mpVars, mRoutes>>

\* The request entries of the volumes specification: process 200 is the
\* process of client 2, no client attaches from process 202.
VolumeEntries ==
    { [process_id |-> 200, relative_volume |-> 25],
      [process_id |-> 200, relative_volume |-> 101],
      [process_id |-> 200, relative_volume |-> 25, pan_position |-> 101],
      [process_id |-> 200, pan_position |-> 30],
      [bundle_id |-> "com.example.player", pan_position |-> -100, eq_low_gain |-> 60],
      [process_id |-> 200, eq_low_gain |-> 60],
      [process_id |-> 202, eq_low_gain |-> 60],
      [process_id |-> 200, eq_mid_gain |-> 121],
      [process_id |-> 200, pan_position |-> 30, eq_high_gain |-> -121],
      [process_id |-> 200, eq_low_gain |-> 0, eq_mid_gain |-> 0, eq_high_gain |-> 0],
      [relative_volume |-> 50],
      [process_id |-> 200],
      [bundle_id |-> "com.example.player", relative_volume |-> 50] }

\* An entry that is accepted, to come before another in a request.
FirstEntries == {[process_id |-> 201, relative_volume |-> 25]}

\* The requests: one entry, or an accepted entry and one more.
VolumeRequests ==
    {<<d>> : d \in VolumeEntries} \cup {<<d, e>> : d \in FirstEntries, e \in VolumeEntries}

\* What theAppPID may hold when the request carries no process id.
UninitPIDs == {200, 202}

NextVolumes ==
    \/ \E c \in RouteClientIDs : Serial(AddClient(c, RouteClientPID(c), "com.example.player"))
    \/ \E c \in RouteClientIDs : Serial(RemoveClient(c))
    \/ \E r \in VolumeRequests, u \in UninitPIDs : Serial(SetClientsRelativeVolumes(r, u))

SpecVolumes == Init /\ [][NextVolumes]_vars

\* The request and the result of the call of SetClientsRelativeVolumes that
\* a step makes.
VolumesCall == SetClientsRelativeVolumesResult(clients, last'.args[1], last'.args[2])

\* The volume, pan position and EQ gains of every client of a map.
VolumeSettings(map) ==
    [c \in DOMAIN map |-> <<map[c].mRelativeVolume, map[c].mPanPosition,
                            map[c].mEQLowGain, map[c].mEQMidGain, map[c].mEQHighGain>>]

\* C18: when SetClientsRelativeVolumes fails on a request entry, that entry
\* has changed no client's relative volume, pan position or EQ gains: every
\* client has the settings it had when the loop started on the entry.
C18_FailingEntryChangesNoClient ==
    [][
        (last'.op = "SetClientsRelativeVolumes" /\ VolumesCall.thrown # "")
            => VolumeSettings(clients') = VolumeSettings(VolumesCall.entryStart)
    ]_vars

\* The fields of a request entry that carry a setting.
SettingKeys == {"relative_volume", "pan_position", "eq_low_gain", "eq_mid_gain", "eq_high_gain"}
EQKeys == {"eq_low_gain", "eq_mid_gain", "eq_high_gain"}
HasID(d) == HasKey(d, "process_id") \/ HasKey(d, "bundle_id")

\* C19: for every entry with a process id or a bundle id that
\* SetClientsRelativeVolumes gets to, the call fails on it with the "no
\* volume, pan position, or EQ in request" error if and only if the entry
\* carries no setting; and it does not fail on an entry that carries only
\* EQ gains within their range.
C19_NoFieldErrorIffNoSettingInEntry ==
    [][
        (last'.op = "SetClientsRelativeVolumes") =>
            \A i \in 1..VolumesCall.processed :
                LET d == last'.args[1][i]
                    failedHere == VolumesCall.thrown # "" /\ i = VolumesCall.processed
                IN HasID(d) =>
                     /\ (failedHere /\ VolumesCall.branch = "noField")
                            <=> (DOMAIN d \cap SettingKeys = {})
                     /\ ( /\ DOMAIN d \cap SettingKeys # {}
                          /\ DOMAIN d \cap SettingKeys \subseteq EQKeys
                          /\ \A k \in EQKeys : ~EQOutOfRange(d, k) ) => ~failedHere
    ]_vars

(***************************************************************************)
(* The NRT operations on two threads.  A method that starts with           *)
(* CAMutex::Locker theLocker(mMutex) waits for mMutex, takes it, runs and  *)
(* gives it back at its return; SetClientsRelativeVolumes has no Locker    *)
(* and runs one request entry per step.                                    *)
(***************************************************************************)
\* Lines 54, 82, 97, 151, 245, 269, 459, 501, 559, 634: the Locker takes
\* mMutex once no thread holds it.
NRT_Lock(t) ==
    /\ nrtThread[t] = Idle
    /\ mMutex = NoThread
    /\ mMutex' = t
    /\ nrtThread' = [nrtThread EXCEPT ![t] = [pc |-> "locked"]]
    /\ UNCHANGED <<clients, ioVars, mBGMAppClientID, mpVars, mRoutes, last, ioBuffer, rtThread>>

\* The method A run by the thread that took mMutex, and the Locker's
\* destructor at its return or its exception.
NRT_Locked(t, A) ==
    /\ nrtThread[t].pc = "locked"
    /\ mMutex = t
    /\ A
    /\ mMutex' = NoThread
    /\ nrtThread' = [nrtThread EXCEPT ![t] = Idle]
    /\ ioBuffer' = <<>>
    /\ UNCHANGED rtThread

\* Lines 318-320: SetClientsRelativeVolumes is entered; mMutex is not
\* taken.
Volumes_Begin(t, inAppVolumes, uninit) ==
    /\ nrtThread[t] = Idle
    /\ nrtThread' = [nrtThread EXCEPT ![t] =
           [pc |-> "volumes", inAppVolumes |-> inAppVolumes, uninit |-> uninit,
            i |-> 1,
            st |-> [clients |-> <<>>, changed |-> FALSE, thrown |-> "",
                    branch |-> "returned", didGetEQ |-> FALSE,
                    entryStart |-> <<>>, processed |-> 0]]]
    /\ UNCHANGED <<clients, ioVars, mBGMAppClientID, mpVars, mRoutes, last, ioBuffer,
                   rtThread, mMutex>>

\* Lines 326-449: one turn of the loop, on the client map as it is now.
Volumes_Entry(t) ==
    LET th == nrtThread[t]
        st == IF th.i > Len(th.inAppVolumes) THEN th.st
              ELSE VolumeStep([th.st EXCEPT !.clients = clients],
                              th.inAppVolumes[th.i], th.uninit)
        \* the loop state without the maps, which are those of the engine
        kept == [st EXCEPT !.clients = <<>>, !.entryStart = <<>>]
    IN /\ th.pc = "volumes"
       /\ clients' = IF th.i > Len(th.inAppVolumes) THEN clients ELSE st.clients
       /\ nrtThread' = [nrtThread EXCEPT ![t] =
              [th EXCEPT !.st = kept, !.i = @ + 1,
                         !.pc = IF st.thrown # "" \/ th.i >= Len(th.inAppVolumes)
                                THEN "return" ELSE "volumes"]]
       /\ UNCHANGED <<ioVars, mBGMAppClientID, mpVars, mRoutes, last, ioBuffer,
                      rtThread, mMutex>>

\* Line 452, or the exception leaving the method.
Volumes_Return(t) ==
    LET th == nrtThread[t] IN
    /\ th.pc = "return"
    /\ last' = Quiet("SetClientsRelativeVolumes", <<th.inAppVolumes, th.uninit>>,
                     IF th.st.thrown # "" THEN th.st.thrown ELSE Bool(th.st.changed),
                     th.st.branch)
    /\ nrtThread' = [nrtThread EXCEPT ![t] = Idle]
    /\ ioBuffer' = <<>>
    /\ UNCHANGED <<clients, ioVars, mBGMAppClientID, mpVars, mRoutes, rtThread, mMutex>>

\* The client, and the requests, of the two-thread NRT specification.
NRTClientIDs == {2}
NRTVolumeRequests ==
    { <<[process_id |-> 200, relative_volume |-> 25]>>,
      <<[process_id |-> 200, pan_position |-> 30], [process_id |-> 200, relative_volume |-> 101]>> }
NRTRouteArrays == {<<RouteEntry(TRUE, TRUE, 200, TRUE, 201, TRUE, 50, TRUE, TRUE)>>}

NextNRTThreads ==
    \/ \E t \in NRTThreads : NRT_Lock(t)
    \/ \E t \in NRTThreads, c \in NRTClientIDs :
          NRT_Locked(t, AddClient(c, RouteClientPID(c), "com.example.player"))
    \/ \E t \in NRTThreads, c \in NRTClientIDs : NRT_Locked(t, RemoveClient(c))
    \/ \E t \in NRTThreads, c \in NRTClientIDs : NRT_Locked(t, StartIONonRT(c))
    \/ \E t \in NRTThreads, c \in NRTClientIDs : NRT_Locked(t, StopIONonRT(c))
    \/ \E t \in NRTThreads : NRT_Locked(t, SetMusicPlayer_PID(200))
    \/ \E t \in NRTThreads : NRT_Locked(t, SetMusicPlayer_BundleID("com.example.player"))
    \/ \E t \in NRTThreads : NRT_Locked(t, SetRoute(200, 201, kDefaultGain, TRUE))
    \/ \E t \in NRTThreads, a \in NRTRouteArrays : NRT_Locked(t, SetRoutesFromArray(a))
    \/ \E t \in NRTThreads : NRT_Locked(t, CopyRoutesAsArray)
    \/ \E t \in NRTThreads : NRT_Locked(t, ClearRoutesForClient(200))
    \/ \E t \in NRTThreads, r \in NRTVolumeRequests : Volumes_Begin(t, r, 200)
    \/ \E t \in NRTThreads : Volumes_Entry(t)
    \/ \E t \in NRTThreads : Volumes_Return(t)

SpecNRTThreads == Init /\ [][NextNRTThreads]_vars

\* Thread t is inside an NRT operation.
InsideNRT(t) == nrtThread[t].pc \in {"locked", "volumes"}

\* The step is one in which thread t, inside an NRT operation, reads or
\* writes the client map, the designator, the counters or the graph.
AccessBy(t) == InsideNRT(t) /\ nrtThread'[t] # nrtThread[t]

\* C20: every step of an NRT operation that reads or writes the client map,
\* the music-player designator, the IO counters or the routing graph is
\* taken by the thread that holds mMutex, so no thread takes such a step
\* while another thread is inside an NRT operation; and a thread that holds
\* mMutex does not take it again.
C20_NRTOperationsHoldTheMutex ==
    [][
        \A t \in NRTThreads :
            /\ AccessBy(t) => mMutex = t
            /\ AccessBy(t) => \A u \in NRTThreads \ {t} : ~InsideNRT(u)
            /\ (mMutex = t /\ mMutex' = t) => nrtThread'[t] = nrtThread[t]
    ]_vars

(***************************************************************************)
(* Properties of the music-player flag.                                    *)
(***************************************************************************)
\* The client's PID is the PID designator that is set, or its bundle id is
\* the bundle-id designator that is set.
Designated(theClient) ==
    \/ PIDDesignatorSet /\ theClient.mProcessID = mMusicPlayerProcessIDProperty
    \/ BundleIDDesignatorSet /\ theClient.mBundleID = mMusicPlayerBundleIDProperty

\* C21: every client in the map has mIsMusicPlayer true if and only if its
\* PID is the PID designator that is set or its bundle id is the bundle-id
\* designator that is set; IsMusicPlayerRT returns that value for a client
\* in the map and false for an id that is not in it.
C21_MusicPlayerFlagFollowsDesignator ==
    /\ \A c \in DOMAIN clients : clients[c].mIsMusicPlayer <=> Designated(clients[c])
    /\ (last.op = "IsMusicPlayerRT") =>
          last.ret = Bool(/\ last.args[1] \in DOMAIN clients
                          /\ Designated(clients[last.args[1]]))

\* IsMusicPlayerRT has returned true for a client designated by its bundle
\* id while another client in the map is not the music player.
C21_Witness ==
    /\ last.op = "IsMusicPlayerRT"
    /\ last.ret = "true"
    /\ BundleIDDesignatorSet
    /\ \E c \in DOMAIN clients : ~clients[c].mIsMusicPlayer

(***************************************************************************)
(* Properties that tie the routing buffers to the routing graph.           *)
(***************************************************************************)
\* The processes the graph has an edge out of.
SourcePIDs(routes) == {routes[i].mSourcePID : i \in 1..Len(routes)}

\* C22: a client's routing buffer is allocated only if the routing graph
\* has an edge whose source is the client's process; once the last edge out
\* of a process is gone, however it was removed, the buffers of that
\* process's clients are deallocated.
C22_BufferAllocatedOnlyForSources ==
    \A c \in DOMAIN clients :
        clients[c].mRoutingBufferAllocated =>
            clients[c].mProcessID \in SourcePIDs(mRoutes)

(***************************************************************************)
(* The detach specification: clients attach and detach while routes are    *)
(* set, listed and asked for.                                              *)
(***************************************************************************)
NextDetach ==
    \/ \E c \in RouteClientIDs : Serial(AddClient(c, RouteClientPID(c), "com.example.player"))
    \/ \E c \in RouteClientIDs : Serial(RemoveClient(c))
    \/ \E p \in RoutePairs, e \in BOOLEAN : Serial(SetRoute(p[1], p[2], kDefaultGain, e))
    \/ Serial(CopyRoutesAsArray)
    \/ \E c \in RouteClientIDs : Serial(HasIncomingRoutesRT(c))

SpecDetach == Init /\ [][NextDetach]_vars

\* C23: when RemoveClient has removed a client and no client of its process
\* is left in the map, the routing graph has no edge out of that process.
C23_RemoveClientDropsItsRoutes ==
    [][
        \A c \in DOMAIN clients :
            ( /\ last'.op = "RemoveClient"
              /\ c \notin DOMAIN clients'
              /\ \A d \in DOMAIN clients' : clients'[d].mProcessID # clients[c].mProcessID )
            => clients[c].mProcessID \notin SourcePIDs(mRoutes')
    ]_vars

(***************************************************************************)
(* SetRoute on an NRT thread while MixRoutedAudioRT scans the graph on an  *)
(* RT thread.  The NRT thread holds mMutex, which the RT thread never      *)
(* takes; the update of an existing edge is two writes (lines 468, 469).   *)
(* Edges are appended only while no thread is inside a call, so the        *)
(* sequence is not relocated under the scan.                               *)
(***************************************************************************)
\* Lines 462-467: the loop finds the edge; "changed" is computed.
SetRoute_Find(t, inSourcePID, inDestPID, inGain, inEnabled) ==
    LET i == FirstRoute(mRoutes, inSourcePID, inDestPID) IN
    /\ nrtThread[t].pc = "locked"
    /\ mMutex = t
    /\ i # 0
    /\ nrtThread' = [nrtThread EXCEPT ![t] =
           [pc |-> "found", i |-> i, inGain |-> inGain, inEnabled |-> inEnabled,
            before |-> mRoutes[i],
            changed |-> RouteChanged(mRoutes[i], inGain, inEnabled)]]
    /\ UNCHANGED <<clients, ioVars, mBGMAppClientID, mpVars, mRoutes, last, ioBuffer,
                   rtThread, mMutex>>

\* Line 468: route.mGain = inGain.
SetRoute_WriteGain(t) ==
    /\ nrtThread[t].pc = "found"
    /\ mRoutes' = [mRoutes EXCEPT ![nrtThread[t].i].mGain = nrtThread[t].inGain]
    /\ nrtThread' = [nrtThread EXCEPT ![t].pc = "wroteGain"]
    /\ UNCHANGED <<clients, ioVars, mBGMAppClientID, mpVars, last, ioBuffer,
                   rtThread, mMutex>>

\* Lines 469-473: route.mEnabled = inEnabled, and the return.
SetRoute_WriteEnabled(t) ==
    LET th == nrtThread[t] IN
    /\ th.pc = "wroteGain"
    /\ mRoutes' = [mRoutes EXCEPT ![th.i].mEnabled = th.inEnabled]
    /\ last' = Quiet("SetRoute", <<th.before.mSourcePID, th.before.mDestPID,
                                   th.inGain, th.inEnabled>>,
                     Bool(th.changed), "updated")
    /\ mMutex' = NoThread
    /\ nrtThread' = [nrtThread EXCEPT ![t] = Idle]
    /\ UNCHANGED <<clients, ioVars, mBGMAppClientID, mpVars, ioBuffer, rtThread>>

\* The thread that sets routes, and the settings it gives the edge.
ScanNRTThread == 1
ScanSettings == {<<kDefaultGain, TRUE>>, <<50, FALSE>>}
\* The frames of every Store and Mix call while routes are being set.
ScanFrames == 1

NextScan ==
    \/ \E c \in RouteClientIDs : Serial(AddClient(c, RouteClientPID(c), "com.example.player"))
    \/ \E p \in ThreadedEdges : Serial(SetRoute(p[1], p[2], p[3], TRUE))
    \/ NRT_Lock(ScanNRTThread)
    \/ \E p \in ThreadedEdges, g \in ScanSettings :
          SetRoute_Find(ScanNRTThread, p[1], p[2], g[1], g[2])
    \/ SetRoute_WriteGain(ScanNRTThread)
    \/ SetRoute_WriteEnabled(ScanNRTThread)
    \/ \E c \in RouteClientIDs :
          StoreRT_Begin(c, ProducedAudio(c, WrittenBy(c), ScanFrames), ScanFrames)
    \/ StoreRT_WriteSample
    \/ StoreRT_Publish
    \/ \E c \in RouteClientIDs :
          MixRT_Begin(c, [j \in 1..(2 * ScanFrames) |-> 0], ScanFrames)
    \/ MixRT_LoadWritePos
    \/ MixRT_ReadSample
    \/ MixRT_Return

SpecScan == Init /\ [][NextScan]_vars

\* The step is one in which MixRoutedAudioRT takes edge i of the graph to
\* mix from: it has read the edge's mEnabled, mDestPID, mSourcePID and mGain.
MixTakesRoute(i) ==
    /\ rtThread["mix"].pc = "idle"
    /\ rtThread'["mix"].pc = "load"
    /\ rtThread'["mix"].route = i

\* The edge an update of SetRoute leaves behind.
AfterUpdate(th) == [th.before EXCEPT !.mGain = th.inGain, !.mEnabled = th.inEnabled]

\* C24: an edge that the scan of MixRoutedAudioRT reads while SetRoute is
\* updating it on another thread is the edge as it was before the update or
\* as it is after it.
C24_ScanReadsEdgeBeforeOrAfterUpdate ==
    [][
        \A i \in 1..Len(mRoutes) :
            ( /\ MixTakesRoute(i)
              /\ nrtThread[ScanNRTThread].pc \in {"found", "wroteGain"}
              /\ nrtThread[ScanNRTThread].i = i )
            => mRoutes[i] \in {nrtThread[ScanNRTThread].before,
                               AfterUpdate(nrtThread[ScanNRTThread])}
    ]_vars

(***************************************************************************)
(* ClearRoutesForClient on an NRT thread while StoreClientAudioRT and      *)
(* MixRoutedAudioRT run on the RT threads.                                 *)
(***************************************************************************)
NextFree ==
    \/ \E c \in RouteClientIDs : Serial(AddClient(c, RouteClientPID(c), "com.example.player"))
    \/ \E p \in ThreadedEdges : Serial(SetRoute(p[1], p[2], p[3], TRUE))
    \/ NRT_Lock(ScanNRTThread)
    \/ \E p \in ThreadedEdges : NRT_Locked(ScanNRTThread, ClearRoutesForClient(p[1]))
    \/ \E c \in RouteClientIDs :
          StoreRT_Begin(c, ProducedAudio(c, WrittenBy(c), ScanFrames), ScanFrames)
    \/ StoreRT_WriteSample
    \/ StoreRT_Publish
    \/ \E c \in RouteClientIDs :
          MixRT_Begin(c, [j \in 1..(2 * ScanFrames) |-> 0], ScanFrames)
    \/ MixRT_LoadWritePos
    \/ MixRT_ReadSample
    \/ MixRT_Return

SpecFree == Init /\ [][NextFree]_vars

\* The step is a write of a sample by StoreToRoutingBuffer, or a read of a
\* sample by FetchFromRoutingBuffer.
StoreWrites == rtThread["store"].pc = "write" /\ rtThread'["store"] # rtThread["store"]
FetchReads == rtThread["mix"].pc = "read" /\ rtThread'["mix"] # rtThread["mix"]

\* C25: no step of StoreToRoutingBuffer writes, and no step of
\* FetchFromRoutingBuffer reads, the storage of a routing buffer that
\* DeallocateRoutingBuffer has freed since the call checked that the buffer
\* was allocated.
C25_NoRTAccessToFreedStorage ==
    [][
        /\ StoreWrites => ~StorageFreed(clients[rtThread["store"].client])
        /\ FetchReads => ~StorageFreed(clients[rtThread["mix"].source])
    ]_vars

(***************************************************************************)
(* FetchFromRoutingBuffer called with any channel and any offset, on       *)
(* clients with and without a routing buffer, and MixRoutedAudioRT over    *)
(* edges of any gain.                                                      *)
(***************************************************************************)
\* A call of BGM_Client::FetchFromRoutingBuffer on client c.
FetchRT(c, inChannel, inSampleOffset) ==
    /\ c \in DOMAIN clients
    /\ last' = Quiet("FetchFromRoutingBuffer", <<c, inChannel, inSampleOffset>>,
                     ToString(FetchFromRoutingBuffer(clients[c], inChannel, inSampleOffset)),
                     FetchBranch(clients[c], inChannel, inSampleOffset))
    /\ UNCHANGED <<clients, ioVars, mBGMAppClientID, mpVars, mRoutes>>

\* The channels and the offsets Fetch is called with.
FetchChannels == {-1, 0, 1, 2}
FetchOffsets == 0..(MaxFrames + 1)
\* The gains routes are given: 1.0 and NaN.
FetchGains == {kDefaultGain, F32_NaN}

NextFetch ==
    \/ \E c \in RouteClientIDs : Serial(AddClient(c, RouteClientPID(c), "com.example.player"))
    \/ \E p \in ThreadedEdges, g \in FetchGains : Serial(SetRoute(p[1], p[2], g, TRUE))
    \/ \E p \in ThreadedEdges : Serial(ClearRoutesForClient(p[1]))
    \/ \E c \in RouteClientIDs, n \in 1..MaxFrames :
          Serial(StoreClientAudioRT(c, ProducedAudio(c, WrittenBy(c), n), n))
    \/ \E c \in RouteClientIDs, ch \in FetchChannels, off \in FetchOffsets :
          Serial(FetchRT(c, ch, off))
    \/ \E c \in RouteClientIDs, n \in 1..MaxFrames :
          \E io \in IOBuffers(n) : MixRoutedAudioRT(c, io, n)

SpecFetch == Init /\ [][NextFetch]_vars

\* The sources of the enabled edges into a process that are attached.
AttachedSources(destPID) ==
    {GetClientByPIDRT(clients, mRoutes[i].mSourcePID) :
        i \in {j \in 1..Len(mRoutes) : mRoutes[j].mEnabled /\ mRoutes[j].mDestPID = destPID}}
    \ {NoClient}

\* C26: Fetch returns 0 when the buffer is not allocated, when the write
\* position is less than the offset, or when the channel is neither 0 nor 1;
\* the index it reads is within the storage; and MixRoutedAudioRT on a
\* destination whose sources have never been stored to leaves the io
\* buffer as it was.
C26_FetchSilenceAndMixNoOp ==
    /\ (last.op = "FetchFromRoutingBuffer") =>
          LET theClient == clients[last.args[1]]
              inChannel == last.args[2]
              inSampleOffset == last.args[3]
          IN /\ ( \/ ~theClient.mRoutingBufferAllocated
                  \/ theClient.mRoutingBufferWritePos < inSampleOffset
                  \/ inChannel \notin {0, 1} ) => last.ret = "0" /\ last.branch # "read"
             /\ (last.branch = "read") =>
                   FetchIndex(theClient.mRoutingBufferWritePos, inChannel, inSampleOffset)
                       \in 0..(kRoutingBufferFrames * kRoutingBufferChannels - 1)
    /\ ( /\ last.op = "MixRoutedAudioRT"
         /\ last.args[1] \in DOMAIN clients
         /\ \A s \in AttachedSources(clients[last.args[1]].mProcessID) :
               clients[s].written = <<>> )
       => ioBuffer = last.args[2]

\* The processes the graph has an enabled edge out of.
EnabledSourcePIDs(routes) ==
    {routes[i].mSourcePID : i \in {j \in 1..Len(routes) : routes[j].mEnabled}}

\* C27: every client in the map whose process is the source of an enabled
\* edge has its routing buffer allocated, in whatever order the clients
\* were added and the routes set.
C27_EnabledSourceHasBuffer ==
    \A c \in DOMAIN clients :
        clients[c].mProcessID \in EnabledSourcePIDs(mRoutes)
            => clients[c].mRoutingBufferAllocated

\* The last call was a StartIONonRT or StopIONonRT that failed with
\* IllegalOperation.
IOCallFailed(l) ==
    /\ l.op \in {"StartIONonRT", "StopIONonRT"}
    /\ l.ret = "IllegalOperation"

\* C28: a StartIONonRT or StopIONonRT that fails with IllegalOperation
\* leaves both start counts and the client's doing-IO flag as they were
\* before the call.
C28_FailedIOCallChangesNothing ==
    [][
        IOCallFailed(last')
            => /\ mStartCount' = mStartCount
               /\ mStartCountExcludingBGMApp' = mStartCountExcludingBGMApp
               /\ clients'[last'.args[1]].mDoingIO = clients[last'.args[1]].mDoingIO
    ]_vars

\* C29: the calls that report a device transition alternate.  A
\* StartIONonRT returns true only when no transition was reported yet or
\* the latest one reported was a stop, and a StopIONonRT returns true only
\* when the latest one reported was a start.
C29_ReportedTransitionsAlternate ==
    [][
        /\ (last'.op = "StartIONonRT" /\ last'.ret = "true")
               => last.reported \in {"none", "StopIONonRT"}
        /\ (last'.op = "StopIONonRT" /\ last'.ret = "true")
               => last.reported = "StartIONonRT"
    ]_vars

(***************************************************************************)
(* Requests whose entries carry one identifier only, on clients of         *)
(* different bundle ids.                                                   *)
(***************************************************************************)
\* Entries with a bundle id and no process id, and with a process id and no
\* bundle id: process 200 is the process of client 2.
OneKeyEntries ==
    { [bundle_id |-> "com.example.player", relative_volume |-> 50],
      [bundle_id |-> "com.example.player", pan_position |-> 30],
      [bundle_id |-> "com.example.player", eq_low_gain |-> 60],
      [process_id |-> 200, relative_volume |-> 25],
      [process_id |-> 200, pan_position |-> -40],
      [process_id |-> 200, eq_mid_gain |-> 60] }

NextOneKey ==
    \/ \E c \in RouteClientIDs, b \in ClientBundleIDs :
           Serial(AddClient(c, RouteClientPID(c), b))
    \/ \E c \in RouteClientIDs : Serial(RemoveClient(c))
    \/ \E d \in OneKeyEntries, u \in UninitPIDs :
           Serial(SetClientsRelativeVolumes(<<d>>, u))

SpecOneKey == Init /\ [][NextOneKey]_vars

\* A client has the process id or the bundle id that an entry carries.
MatchesEntry(theClient, d) ==
    \/ HasKey(d, "process_id") /\ theClient.mProcessID = d.process_id
    \/ HasKey(d, "bundle_id") /\ theClient.mBundleID = d.bundle_id

\* C30: SetClientsRelativeVolumes changes the volume, pan position and EQ
\* gains only of clients that an entry of the request identifies: by its
\* bundle id when the entry carries no process id, by its process id when
\* it carries no bundle id.
C30_OnlyIdentifiedClientsChange ==
    [][
        (last'.op = "SetClientsRelativeVolumes") =>
            \A c \in DOMAIN clients :
                VolumeSettings(clients')[c] # VolumeSettings(clients)[c]
                    => \E i \in 1..Len(last'.args[1]) :
                           MatchesEntry(clients[c], last'.args[1][i])
    ]_vars

=============================================================================
